---- MODULE Spec2Model ----
(***************************************************************************)
(* Groth16 CRS subversion audit (bellman/src/groth16/mod.rs).              *)
(*                                                                         *)
(* Group elements of G1 and G2 are represented by their discrete logarithm *)
(* with respect to a fixed generator, a scalar of the field Fr; the group  *)
(* identity is 0, addition is addition in Fr, and the pairing of x in G1   *)
(* with y in G2 is the product x*y (Gt written additively, its unit is 0). *)
(* Sequences are 1-based here and 0-based in the source: entry i of the    *)
(* source is entry i+1 of the model (see At).                              *)
(***************************************************************************)
EXTENDS Integers, Sequences, FiniteSets, TLC

\* ------------------------------------------------------------------------
\* Bounds of the model
\* ------------------------------------------------------------------------

\* The scalars the caller's rng hands out are 0 .. MaxRngScalar.
MaxRngScalar == 1

\* The number of verify calls made on one ExtendedParameters value.
MaxCalls == 2

\* ------------------------------------------------------------------------
\* The scalar field and the groups
\* ------------------------------------------------------------------------

\* The scalar field Fr: a prime field whose multiplicative group holds the
\* radix-2 evaluation domains of size 1, 2, 4 and 8.
Fr == 0 .. 16

char == Cardinality(Fr)

Mod(x) == x % char

\* x^n by squaring.
RECURSIVE Pow(_, _)
Pow(x, n) ==
    IF n = 0 THEN 1
    ELSE IF n % 2 = 1 THEN Mod(x * Pow(x, n - 1))
    ELSE Mod(Pow(x, n \div 2) * Pow(x, n \div 2))

Inverse(x) == CHOOSE y \in Fr : Mod(x * y) = 1

Neg(x) == Mod(char - x)

is_identity(e) == e = 0

\* E::pairing(p, q)
pairing(p, q) == Mod(p * q)

\* final_exponentiation(miller_loop(pairs)): the product of the pairings.
RECURSIVE miller_loop(_)
miller_loop(pairs) ==
    IF pairs = <<>> THEN 0
    ELSE Mod(pairing(Head(pairs)[1], Head(pairs)[2]) + miller_loop(Tail(pairs)))

\* Entry i (0-based, as in the source) of a sequence.
At(s, i) == s[i + 1]

\* collect(): the sequence with the entries f[1], ..., f[n] of a function on
\* 1 .. n.
RECURSIVE collect_range(_, _, _)
collect_range(f, lo, hi) ==
    IF lo > hi THEN <<>>
    ELSE IF lo = hi THEN <<f[lo]>>
    ELSE LET mid == (lo + hi) \div 2
         IN  collect_range(f, lo, mid) \o collect_range(f, mid + 1, hi)

collect_to(f, n) == collect_range(f, 1, n)

collect(f) == collect_to(f, Cardinality(DOMAIN f))

\* iter.take(n) and iter.skip(n)
Take(s, n) == SubSeq(s, 1, IF n < Len(s) THEN n ELSE Len(s))

Skip(s, n) == SubSeq(s, n + 1, Len(s))

\* into_iter().filter(|e| !e.is_identity())
RECURSIVE FilterNonIdentity(_)
FilterNonIdentity(s) ==
    IF s = <<>> THEN <<>>
    ELSE IF is_identity(Head(s)) THEN FilterNonIdentity(Tail(s))
    ELSE <<Head(s)>> \o FilterNonIdentity(Tail(s))

\* ------------------------------------------------------------------------
\* KeypairAssembly and circuits
\* ------------------------------------------------------------------------

Input(i) == [kind |-> "Input", id |-> i]

Aux(i) == [kind |-> "Aux", id |-> i]

\* The assembly verify starts from: every counter 0, every list empty.
KeypairAssembly ==
    [num_inputs |-> 0, num_aux |-> 0, num_constraints |-> 0,
     at_inputs |-> <<>>, bt_inputs |-> <<>>, ct_inputs |-> <<>>,
     at_aux |-> <<>>, bt_aux |-> <<>>, ct_aux |-> <<>>]

\* The new wire's lists are put before the existing ones.
alloc_at_front(cs) ==
    [cs EXCEPT !.num_aux = @ + 1,
               !.at_aux = <<<<>>>> \o @,
               !.bt_aux = <<<<>>>> \o @,
               !.ct_aux = <<<<>>>> \o @]

alloc(cs) ==
    [cs EXCEPT !.num_aux = @ + 1,
               !.at_aux = Append(@, <<>>),
               !.bt_aux = Append(@, <<>>),
               !.ct_aux = Append(@, <<>>)]

alloc_input(cs) ==
    [cs EXCEPT !.num_inputs = @ + 1,
               !.at_inputs = Append(@, <<>>),
               !.bt_inputs = Append(@, <<>>),
               !.ct_inputs = Append(@, <<>>)]

\* enforce's inner eval, restricted to one kind of wire: a linear combination
\* is a sequence of terms <<coeff, variable>>.
RECURSIVE eval(_, _, _, _)
eval(l, kind, lists, this_constraint) ==
    IF l = <<>> THEN lists
    ELSE LET coeff == Head(l)[1]
             var == Head(l)[2]
             pushed == IF var.kind = kind
                       THEN [lists EXCEPT ![var.id + 1] =
                                Append(@, <<coeff, this_constraint>>)]
                       ELSE lists
         IN  eval(Tail(l), kind, pushed, this_constraint)

\* The counter is advanced before the terms are tagged.
enforce_counting_first(cs, a, b, c) ==
    [cs EXCEPT !.at_inputs = eval(a, "Input", @, cs.num_constraints + 1),
               !.at_aux = eval(a, "Aux", @, cs.num_constraints + 1),
               !.bt_inputs = eval(b, "Input", @, cs.num_constraints + 1),
               !.bt_aux = eval(b, "Aux", @, cs.num_constraints + 1),
               !.ct_inputs = eval(c, "Input", @, cs.num_constraints + 1),
               !.ct_aux = eval(c, "Aux", @, cs.num_constraints + 1),
               !.num_constraints = @ + 1]

enforce(cs, a, b, c) ==
    [cs EXCEPT !.at_inputs = eval(a, "Input", @, cs.num_constraints),
               !.at_aux = eval(a, "Aux", @, cs.num_constraints),
               !.bt_inputs = eval(b, "Input", @, cs.num_constraints),
               !.bt_aux = eval(b, "Aux", @, cs.num_constraints),
               !.ct_inputs = eval(c, "Input", @, cs.num_constraints),
               !.ct_aux = eval(c, "Aux", @, cs.num_constraints),
               !.num_constraints = @ + 1]

\* A circuit is the sequence of constraint-system calls its synthesize makes;
\* the call "fail" stands for synthesize returning an error of its own.
Op(name, a, b, c) == [op |-> name, a |-> a, b |-> b, c |-> c]

\* circuit.synthesize(cs): the assembly after the calls, and whether the
\* circuit returned Ok.
RECURSIVE synthesize(_, _)
synthesize(ops, cs) ==
    IF ops = <<>> THEN [ok |-> TRUE, cs |-> cs]
    ELSE IF Len(ops) = 1
    THEN LET o == Head(ops) IN
         CASE o.op = "alloc" -> [ok |-> TRUE, cs |-> alloc(cs)]
           [] o.op = "alloc_input" -> [ok |-> TRUE, cs |-> alloc_input(cs)]
           [] o.op = "enforce" -> [ok |-> TRUE, cs |-> enforce(cs, o.a, o.b, o.c)]
           [] OTHER -> [ok |-> FALSE, cs |-> cs]
    ELSE LET half == Len(ops) \div 2
             first == synthesize(SubSeq(ops, 1, half), cs)
         IN  IF ~first.ok THEN first
             ELSE synthesize(SubSeq(ops, half + 1, Len(ops)), first.cs)

\* for i in 0..num_inputs { enforce(input_i * 0 = 0) }
RECURSIVE InputConstraintsRange(_, _, _)
InputConstraintsRange(cs, lo, hi) ==
    IF lo > hi THEN cs
    ELSE IF lo = hi THEN enforce(cs, <<<<1, Input(lo)>>>>, <<>>, <<>>)
    ELSE LET mid == (lo + hi) \div 2
             first == InputConstraintsRange(cs, lo, mid)
         IN  IF first.num_constraints > cs.num_constraints
             THEN InputConstraintsRange(first, mid + 1, hi)
             ELSE first

InputConstraints(cs, i) == InputConstraintsRange(cs, i, cs.num_inputs - 1)

\* The "one" input, the circuit, then the input constraints.
QapSynthesisOf(ops) ==
    LET one == alloc_input(KeypairAssembly)
        syn == synthesize(ops, one)
    IN  [ok |-> syn.ok,
         cs |-> IF syn.ok THEN InputConstraints(syn.cs, 0) ELSE syn.cs]

\* One gate of MySillyCircuit: a, b auxiliary, c a public input, a*b=c. The
\* k-th gate (k from 0) allocates Aux(2k), Aux(2k+1) and Input(k+1).
Gate(k) ==
    << Op("alloc", <<>>, <<>>, <<>>),
       Op("alloc", <<>>, <<>>, <<>>),
       Op("alloc_input", <<>>, <<>>, <<>>),
       Op("enforce", <<<<1, Aux(2 * k)>>>>, <<<<1, Aux(2 * k + 1)>>>>,
                     <<<<1, Input(k + 1)>>>>) >>

\* The gates lo, ..., hi in order.
RECURSIVE Gates(_, _)
Gates(lo, hi) ==
    IF lo > hi THEN <<>>
    ELSE IF lo = hi THEN Gate(lo)
    ELSE LET mid == (lo + hi) \div 2
         IN  Gates(lo, mid) \o Gates(mid + 1, hi)

MySillyCircuit(gates) == Gates(0, gates - 1)

\* a*b=c where the A combination also names b with coefficient zero.
ZeroTermCircuit ==
    << Op("alloc", <<>>, <<>>, <<>>),
       Op("alloc", <<>>, <<>>, <<>>),
       Op("alloc_input", <<>>, <<>>, <<>>),
       Op("enforce", <<<<1, Aux(0)>>, <<0, Aux(1)>>>>, <<<<1, Aux(1)>>>>,
                     <<<<1, Input(1)>>>>) >>

\* a*a=c: one auxiliary wire only.
SquareCircuit ==
    << Op("alloc", <<>>, <<>>, <<>>),
       Op("alloc_input", <<>>, <<>>, <<>>),
       Op("enforce", <<<<1, Aux(0)>>>>, <<<<1, Aux(0)>>>>, <<<<1, Input(1)>>>>) >>

\* A circuit whose synthesize fails after its first allocation.
FailingCircuit ==
    << Op("alloc", <<>>, <<>>, <<>>), Op("fail", <<>>, <<>>, <<>>) >>

\* ------------------------------------------------------------------------
\* Evaluation domain, QAP evaluation and multi-exponentiation
\* ------------------------------------------------------------------------

\* EvaluationDomain::from_coeffs: the domain size is the least power of two
\* that is at least the number of coefficients.
RECURSIVE DomainSizeFrom(_, _)
DomainSizeFrom(m, n) == IF m >= n THEN m ELSE DomainSizeFrom(2 * m, n)

DomainSize(n) == DomainSizeFrom(1, n)

\* The coefficients padded with the identity up to the domain size.
from_coeffs(coeffs) ==
    collect([i \in 1 .. DomainSize(Len(coeffs)) |->
                IF i <= Len(coeffs) THEN coeffs[i] ELSE 0])

\* The domain's generator: a primitive m-th root of unity.
omega(m) ==
    CHOOSE w \in Fr \ {0} :
        /\ Pow(w, m) = 1
        /\ \A k \in 1 .. (m - 1) : Pow(w, k) # 1

RECURSIVE SumTo(_, _)
SumTo(f, n) == IF n = 0 THEN 0 ELSE Mod(f[n] + SumTo(f, n - 1))

\* ifft: entry j (0-based) becomes (1/m) * sum_i coeffs[i] * omega^(-i*j).
ifft(coeffs) ==
    LET m == Len(coeffs)
        omegainv == Inverse(omega(m))
        minv == Inverse(Mod(m))
    IN  collect([j \in 1 .. m |->
            Mod(minv * SumTo([i \in 1 .. m |->
                    Mod(coeffs[i] * Pow(omegainv, (i - 1) * (j - 1)))], m))])

\* The Lagrange coefficients verify derives from one of the taus arrays.
LagrangeCoeffs(taus) == ifft(from_coeffs(taus))

\* for &(coeff, lag) in terms { acc += coeffs[lag] * coeff }
RECURSIVE EvalWire(_, _)
EvalWire(terms, coeffs) ==
    IF terms = <<>> THEN 0
    ELSE Mod(Head(terms)[1] * At(coeffs, Head(terms)[2])
             + EvalWire(Tail(terms), coeffs))

\* Some term of some wire indexes past the end of coeffs (coeffs[lag] panics).
LagOutOfRange(wires, m) ==
    \E w \in 1 .. Len(wires) : \E k \in 1 .. Len(wires[w]) : wires[w][k][2] >= m

\* The per-wire evaluations of one matrix, in wire order.
EvalAll(wires, coeffs) ==
    collect([w \in 1 .. Len(wires) |-> EvalWire(wires[w], coeffs)])

\* get_density: one flag per wire, set when the wire's list is not empty.
get_density(constraints) ==
    collect([i \in 1 .. Len(constraints) |-> constraints[i] # <<>>])

FullDensity(n) == collect([i \in 1 .. n |-> TRUE])

\* multiexp(bases, density, exponents): every dense index consumes the next
\* base; the result is an error when the bases run out.
RECURSIVE multiexp_from(_, _, _, _, _)
multiexp_from(bases, density, exponents, i, k) ==
    IF i > Len(exponents) THEN [ok |-> TRUE, val |-> 0]
    ELSE IF ~density[i] THEN multiexp_from(bases, density, exponents, i + 1, k)
    ELSE IF k > Len(bases) THEN [ok |-> FALSE, val |-> 0]
    ELSE LET rest == multiexp_from(bases, density, exponents, i + 1, k + 1)
         IN  [ok |-> rest.ok, val |-> Mod(exponents[i] * bases[k] + rest.val)]

multiexp(bases, density, exponents) ==
    multiexp_from(bases, density, exponents, 1, 1)

\* ------------------------------------------------------------------------
\* Honest parameter generation
\* ------------------------------------------------------------------------

\* The CRS an honest generator builds for a circuit from the trapdoor
\* t = (tau, alpha, beta, gamma, delta), as the fields' comments describe it.
generate_extended_parameters(ops, t) ==
    LET cs == QapSynthesisOf(ops).cs
        m == DomainSize(cs.num_constraints)
        powers == collect([i \in 1 .. m |-> Pow(t.tau, i - 1)])
        lagrange == LagrangeCoeffs(powers)
        at == cs.at_inputs \o cs.at_aux
        bt == cs.bt_inputs \o cs.bt_aux
        ct == cs.ct_inputs \o cs.ct_aux
        a == EvalAll(at, lagrange)
        b == EvalAll(bt, lagrange)
        c == EvalAll(ct, lagrange)
        ext == [w \in 1 .. Len(at) |->
                  Mod(t.beta * a[w] + t.alpha * b[w] + c[w])]
        zt == Mod(Pow(t.tau, m) + char - 1)
    IN  [params |->
            [vk |-> [alpha_g1 |-> t.alpha, beta_g1 |-> t.beta,
                     beta_g2 |-> t.beta, gamma_g2 |-> t.gamma,
                     delta_g1 |-> t.delta, delta_g2 |-> t.delta,
                     ic |-> collect([i \in 1 .. cs.num_inputs |->
                               Mod(ext[i] * Inverse(t.gamma))])],
             h |-> collect([i \in 1 .. (m - 1) |->
                      Mod(Pow(t.tau, i - 1) * zt * Inverse(t.delta))]),
             l |-> collect([j \in 1 .. cs.num_aux |->
                      Mod(ext[cs.num_inputs + j] * Inverse(t.delta))]),
             a |-> FilterNonIdentity(a),
             b_g1 |-> FilterNonIdentity(b),
             b_g2 |-> FilterNonIdentity(b)],
         taus_g1 |-> powers,
         taus_g2 |-> powers]

\* "Never contains points at infinity": the generator's output is a CRS only
\* when no element of h, l and ic is the identity.
NoIdentity(s) == \A i \in 1 .. Len(s) : ~is_identity(s[i])

ValidParameters(p) ==
    /\ NoIdentity(p.vk.ic)
    /\ NoIdentity(p.h)
    /\ NoIdentity(p.l)

\* ------------------------------------------------------------------------
\* The checks of ExtendedParameters::verify
\* ------------------------------------------------------------------------

\* let d = self.taus_g1.len() - 1
Degree(xp) == Len(xp.taus_g1) - 1

\* Entry of verify: the length assertion and the reads of taus_g1[0] and
\* taus_g2[0].
EntryCheck(xp) ==
    IF Len(xp.taus_g1) # Len(xp.taus_g2) THEN "Panic"
    ELSE IF Len(xp.taus_g1) = 0 THEN "Panic"
    ELSE "pass"

\* Check 1/2 of the source: no identity among g1, g2, alpha_g1, beta_g1,
\* gamma_g2, delta_g1 and h[0].
NonDegeneracyCheck(xp) ==
    LET vk == xp.params.vk IN
    IF is_identity(At(xp.taus_g1, 0)) THEN "MalformedCrs"
    ELSE IF is_identity(At(xp.taus_g2, 0)) THEN "MalformedCrs"
    ELSE IF is_identity(vk.alpha_g1) THEN "MalformedCrs"
    ELSE IF is_identity(vk.beta_g1) THEN "MalformedCrs"
    ELSE IF is_identity(vk.gamma_g2) THEN "MalformedCrs"
    ELSE IF is_identity(vk.delta_g1) THEN "MalformedCrs"
    ELSE IF Len(xp.params.h) = 0 THEN "Panic"
    ELSE IF is_identity(At(xp.params.h, 0)) THEN "MalformedCrs"
    ELSE "pass"

\* The cross-group check with the delta comparison left out.
CrossGroupCheckBetaOnly(xp) ==
    LET vk == xp.params.vk
        g1 == At(xp.taus_g1, 0)
        g2 == At(xp.taus_g2, 0)
    IN  IF pairing(g1, vk.beta_g2) # pairing(vk.beta_g1, g2) THEN "MalformedCrs"
        ELSE "pass"

\* e(g1, beta_g2) = e(beta_g1, g2) and e(g1, delta_g2) = e(delta_g1, g2)
CrossGroupCheck(xp) ==
    LET vk == xp.params.vk
        g1 == At(xp.taus_g1, 0)
        g2 == At(xp.taus_g2, 0)
    IN  IF pairing(g1, vk.beta_g2) # pairing(vk.beta_g1, g2) THEN "MalformedCrs"
        ELSE IF pairing(g1, vk.delta_g2) # pairing(vk.delta_g1, g2)
        THEN "MalformedCrs"
        ELSE "pass"

\* The value the H-query pairing product is compared with one.
HQueryProduct(xp, r) ==
    LET d == Degree(xp)
        acc_h_g1 == multiexp(xp.params.h, FullDensity(d), r).val
        acc_taus_g2 == multiexp(Take(xp.taus_g2, d), FullDensity(d), r).val
        acc_taus_g2_shifted == multiexp(Skip(xp.taus_g2, 1), FullDensity(d), r).val
    IN  miller_loop(<< <<acc_h_g1, Neg(xp.params.vk.delta_g2)>>,
                       <<Neg(At(xp.taus_g1, 0)), acc_taus_g2>>,
                       <<At(xp.taus_g1, d), acc_taus_g2_shifted>> >>)

\* H-query validation with the drawn scalars r.
HQueryCheck(xp, r) ==
    IF Len(xp.params.h) # Degree(xp) THEN "Panic"
    ELSE IF HQueryProduct(xp, r) # 0 THEN "MalformedCrs"
    ELSE "pass"

\* The value the powers-of-tau pairing product is compared with one.
TausProduct(xp, p, q) ==
    LET d == Degree(xp)
        pq == collect([i \in 1 .. d |-> Mod(p[i] + q[i])])
        pq_tau_g1 == multiexp(Skip(xp.taus_g1, 1), FullDensity(d), pq).val
        p_tau_g1 == multiexp(Take(xp.taus_g1, d), FullDensity(d), p).val
        q_tau_g2 == multiexp(Skip(xp.taus_g2, 1), FullDensity(d), q).val
    IN  miller_loop(<< <<pq_tau_g1, Neg(At(xp.taus_g2, 0))>>,
                       <<p_tau_g1, At(xp.taus_g2, 1)>>,
                       <<At(xp.taus_g1, 0), q_tau_g2>> >>)

\* Powers of tau validation with the drawn scalars p and q.
TausCheck(xp, p, q) ==
    IF Degree(xp) = 0 THEN "Panic"
    ELSE IF TausProduct(xp, p, q) # 0 THEN "MalformedCrs"
    ELSE "pass"

\* at, bt, ct: the input wires' lists followed by the auxiliary wires'.
WiresA(cs) == cs.at_inputs \o cs.at_aux

WiresB(cs) == cs.bt_inputs \o cs.bt_aux

WiresC(cs) == cs.ct_inputs \o cs.ct_aux

\* QAP evaluation: the four per-wire vectors, or a panic on coeffs[lag].
QapEvaluationOf(xp, cs) ==
    LET coeffs_g1 == LagrangeCoeffs(xp.taus_g1)
        coeffs_g2 == LagrangeCoeffs(xp.taus_g2)
        m == Len(coeffs_g1)
    IN  IF \/ LagOutOfRange(WiresA(cs), m)
           \/ LagOutOfRange(WiresB(cs), m)
           \/ LagOutOfRange(WiresC(cs), m)
        THEN [outcome |-> "Panic",
              a_g1 |-> <<>>, b_g1 |-> <<>>, b_g2 |-> <<>>, c_g1 |-> <<>>]
        ELSE [outcome |-> "pass",
              a_g1 |-> EvalAll(WiresA(cs), coeffs_g1),
              b_g1 |-> EvalAll(WiresB(cs), coeffs_g1),
              b_g2 |-> EvalAll(WiresB(cs), coeffs_g2),
              c_g1 |-> EvalAll(WiresC(cs), coeffs_g1)]

\* assert_eq!(self.params.l.len(), assembly.num_aux)
SizesCheck(xp, cs) == IF Len(xp.params.l) # cs.num_aux THEN "Panic" ELSE "pass"

\* Circuit validation with the drawn scalars z, one per wire.
CircuitCheck(xp, cs, ev, z) ==
    LET vk == xp.params.vk
        z_inp == Take(z, cs.num_inputs)
        z_aux == Skip(z, cs.num_inputs)
        acc_a_g1 == multiexp(FilterNonIdentity(ev.a_g1), get_density(WiresA(cs)), z)
        acc_b_g2 == multiexp(FilterNonIdentity(ev.b_g2), get_density(WiresB(cs)), z)
        acc_c_g1 == multiexp(FilterNonIdentity(ev.c_g1), get_density(WiresC(cs)), z)
        acc_l_g1 == multiexp(xp.params.l, FullDensity(Len(z_aux)), z_aux)
        acc_ic_g1 == multiexp(vk.ic, FullDensity(Len(z_inp)), z_inp)
    IN  IF ~(acc_a_g1.ok /\ acc_b_g2.ok /\ acc_c_g1.ok /\ acc_l_g1.ok /\ acc_ic_g1.ok)
        THEN "Panic"
        ELSE IF miller_loop(<< <<acc_a_g1.val, vk.beta_g2>>,
                               <<vk.alpha_g1, acc_b_g2.val>>,
                               <<acc_c_g1.val, At(xp.taus_g2, 0)>>,
                               <<acc_l_g1.val, Neg(vk.delta_g2)>>,
                               <<acc_ic_g1.val, Neg(vk.gamma_g2)>> >>) # 0
        THEN "MalformedCrs"
        ELSE "pass"

\* assert_eq!(a_g1_affine, self.params.a) and the same for b_g1 and b_g2.
EqualityCheck(xp, ev) ==
    IF FilterNonIdentity(ev.a_g1) # xp.params.a THEN "Panic"
    ELSE IF FilterNonIdentity(ev.b_g1) # xp.params.b_g1 THEN "Panic"
    ELSE IF FilterNonIdentity(ev.b_g2) # xp.params.b_g2 THEN "Panic"
    ELSE "Ok"

\* ------------------------------------------------------------------------
\* The values verify is called on
\* ------------------------------------------------------------------------

\* Trapdoors (tau, alpha, beta, gamma, delta) of the honest generator.
Trapdoors ==
    { [tau |-> 2, alpha |-> 3, beta |-> 5, gamma |-> 7, delta |-> 11],
      [tau |-> 3, alpha |-> 2, beta |-> 6, gamma |-> 5, delta |-> 4] }

\* The circuits parameters are generated for.
SetupCircuits == { MySillyCircuit(1), ZeroTermCircuit, SquareCircuit }

\* The circuits verify is called with.
AuditCircuits == SetupCircuits \cup { MySillyCircuit(2), FailingCircuit }

Edit(kind, i, j) == [kind |-> kind, i |-> i, j |-> j]

Swap(s, i, j) == [s EXCEPT ![i + 1] = s[j + 1], ![j + 1] = s[i + 1]]

DropLast(s) == SubSeq(s, 1, Len(s) - 1)

\* One change of a public field of an ExtendedParameters value.
ApplyEdit(xp, e) ==
    CASE e.kind = "identity_g1" -> [xp EXCEPT !.taus_g1[1] = 0]
      [] e.kind = "identity_g2" -> [xp EXCEPT !.taus_g2[1] = 0]
      [] e.kind = "identity_alpha_g1" -> [xp EXCEPT !.params.vk.alpha_g1 = 0]
      [] e.kind = "identity_beta_g1" -> [xp EXCEPT !.params.vk.beta_g1 = 0]
      [] e.kind = "identity_gamma_g2" -> [xp EXCEPT !.params.vk.gamma_g2 = 0]
      [] e.kind = "identity_delta_g1" -> [xp EXCEPT !.params.vk.delta_g1 = 0]
      [] e.kind = "identity_h0" -> [xp EXCEPT !.params.h[1] = 0]
      [] e.kind = "bit_alpha_g1" -> [xp EXCEPT !.params.vk.alpha_g1 = Mod(@ + 1)]
      [] e.kind = "bit_beta_g2" -> [xp EXCEPT !.params.vk.beta_g2 = Mod(@ + 1)]
      [] e.kind = "bit_delta_g2" -> [xp EXCEPT !.params.vk.delta_g2 = Mod(@ + 1)]
      [] e.kind = "bit_h" -> [xp EXCEPT !.params.h[e.i + 1] = Mod(@ + 1)]
      [] e.kind = "bit_l" -> [xp EXCEPT !.params.l[e.i + 1] = Mod(@ + 1)]
      [] e.kind = "bit_ic" -> [xp EXCEPT !.params.vk.ic[e.i + 1] = Mod(@ + 1)]
      [] e.kind = "swap_taus_g1" -> [xp EXCEPT !.taus_g1 = Swap(@, e.i, e.j)]
      [] e.kind = "replace_a" -> [xp EXCEPT !.params.a[e.i + 1] = Mod(@ + 1)]
      [] e.kind = "remove_a" -> [xp EXCEPT !.params.a = DropLast(@)]
      [] e.kind = "add_a" -> [xp EXCEPT !.params.a = Append(@, 1)]
      [] e.kind = "replace_b_g1" -> [xp EXCEPT !.params.b_g1[e.i + 1] = Mod(@ + 1)]
      [] e.kind = "replace_b_g2" -> [xp EXCEPT !.params.b_g2[e.i + 1] = Mod(@ + 1)]
      [] e.kind = "truncate_taus_g2" -> [xp EXCEPT !.taus_g2 = DropLast(@)]
      [] e.kind = "empty_taus" -> [xp EXCEPT !.taus_g1 = <<>>, !.taus_g2 = <<>>]
      [] e.kind = "single_taus" ->
            [xp EXCEPT !.taus_g1 = Take(@, 1), !.taus_g2 = Take(@, 1)]
      [] e.kind = "empty_h" -> [xp EXCEPT !.params.h = <<>>]
      [] e.kind = "truncate_h" -> [xp EXCEPT !.params.h = DropLast(@)]

RECURSIVE ApplyEdits(_, _)
ApplyEdits(xp, edits) ==
    IF edits = <<>> THEN xp
    ELSE ApplyEdits(ApplyEdit(xp, Head(edits)), Tail(edits))

\* The changes made to an honest CRS of MySillyCircuit: one field each, and a
\* few pairs of them.
SingleEdits ==
    { <<Edit(k, 0, 0)>> : k \in
        { "identity_g1", "identity_g2", "identity_alpha_g1", "identity_beta_g1",
          "identity_gamma_g2", "identity_delta_g1", "identity_h0",
          "bit_alpha_g1", "bit_beta_g2", "bit_delta_g2", "bit_l", "bit_ic",
          "replace_a", "remove_a", "add_a", "replace_b_g1", "replace_b_g2",
          "truncate_taus_g2", "empty_taus", "single_taus", "empty_h",
          "truncate_h" } }
    \cup { <<Edit("bit_h", i, 0)>> : i \in 0 .. 2 }
    \cup { <<Edit("swap_taus_g1", i, j)>> : i \in 0 .. 2, j \in 1 .. 3 }

DoubleEdits ==
    { <<Edit("bit_h", 1, 0), Edit("swap_taus_g1", 1, 2)>>,
      <<Edit("truncate_h", 0, 0), Edit("swap_taus_g1", 1, 2)>>,
      <<Edit("identity_alpha_g1", 0, 0), Edit("truncate_taus_g2", 0, 0)>>,
      <<Edit("identity_delta_g1", 0, 0), Edit("empty_h", 0, 0)>>,
      <<Edit("bit_beta_g2", 0, 0), Edit("empty_h", 0, 0)>>,
      <<Edit("replace_a", 0, 0), Edit("bit_l", 0, 0)>> }

Edits == { e \in SingleEdits : Head(e).i < Head(e).j \/ Head(e).kind # "swap_taus_g1" }
         \cup DoubleEdits

\* A call's input: the CRS, the circuit it is audited with, and where the
\* CRS comes from (the setup circuit, the trapdoor, the edits made to it).
CallInput(setup, t, edits, circuit) ==
    [xp |-> ApplyEdits(generate_extended_parameters(setup, t), edits),
     circuit |-> circuit,
     origin |-> [setup |-> setup, t |-> t, edits |-> edits]]

HonestInputs ==
    { CallInput(c, t, <<>>, c2) :
        c \in SetupCircuits, t \in Trapdoors, c2 \in AuditCircuits }

EditedInputs ==
    { CallInput(MySillyCircuit(1), t, e, MySillyCircuit(1)) :
        t \in Trapdoors, e \in Edits }

Inputs ==
    { x \in HonestInputs \cup EditedInputs :
        ValidParameters(generate_extended_parameters(x.origin.setup, x.origin.t).params) }

\* The scalars E::Fr::random(rng) returns.
RngScalars == 0 .. MaxRngScalar

\* ------------------------------------------------------------------------
\* Point encodings (pairing::bls12_381, as its test vectors fix them)
\* ------------------------------------------------------------------------

\* The width of one Fq coordinate in bytes.
FqBytes == 48

G1Uncompressed == 2 * FqBytes
G2Uncompressed == 4 * FqBytes
G1Compressed == FqBytes
G2Compressed == 2 * FqBytes

\* A point on the curve that is not in the prime-order subgroup, and a pair
\* of coordinates that is not on the curve (values only an unchecked
\* decoding can produce).
OffSubgroup == char
OffCurve == char + 1

\* What decoding yields when the bytes are no point.
NoPoint == 0 - 1

\* The x coordinate is shared by a point and its negative; the y coordinate
\* tells them apart.
AffineX(e) ==
    IF e = OffSubgroup THEN 9
    ELSE IF e = OffCurve THEN 10
    ELSE IF 2 * e < char THEN e ELSE char - e

AffineY(e) ==
    IF e = OffSubgroup THEN 1
    ELSE IF e = OffCurve THEN 2
    ELSE e

\* y is the lexicographically largest of the two roots.
YIsLargest(e) == e < char /\ 2 * e > char

\* The point with the coordinates x, y: on the curve or not, in the
\* subgroup or not.
PointAt(x, y) ==
    IF \E e \in Fr \ {0} : AffineX(e) = x /\ AffineY(e) = y
    THEN CHOOSE e \in Fr \ {0} : AffineX(e) = x /\ AffineY(e) = y
    ELSE IF x = AffineX(OffSubgroup) /\ y = AffineY(OffSubgroup)
    THEN OffSubgroup
    ELSE OffCurve

\* The point with x coordinate x and the chosen root, if x is on the curve.
PointAbove(x, largest) ==
    IF \E e \in Fr \ {0} : AffineX(e) = x /\ YIsLargest(e) = largest
    THEN CHOOSE e \in Fr \ {0} : AffineX(e) = x /\ YIsLargest(e) = largest
    ELSE IF x = AffineX(OffSubgroup)
    THEN OffSubgroup
    ELSE NoPoint

Zeroes(n) == collect([i \in 1 .. n |-> 0])

\* A coordinate as FqBytes big-endian bytes.
to_repr(v) == Zeroes(FqBytes - 1) \o <<v>>

\* The three flag bits of the first byte.
CompressionFlag == 128
InfinityFlag == 64
SortFlag == 32

HasFlag(byte, flag) == (byte \div flag) % 2 = 1

SetFlag(bytes, flag) == [bytes EXCEPT ![1] = @ + flag]

ClearFlags(bytes) == [bytes EXCEPT ![1] = @ % SortFlag]

\* The first byte of the modulus of Fq: a coordinate that starts with a
\* greater byte is not reduced.
ModulusFirstByte == 26

\* The coordinate FqBytes bytes stand for: -1 when they are not a reduced
\* element, the last byte when all others are zero, and otherwise an
\* element that is the coordinate of no point of the model.
from_repr(bytes) ==
    IF bytes[1] >= ModulusFirstByte THEN 0 - 1
    ELSE IF \A i \in 1 .. (FqBytes - 1) : bytes[i] = 0 THEN bytes[FqBytes]
    ELSE 256

\* G1: x, y.  G2: x.c1, x.c0, y.c1, y.c0, with c1 = 0 for every point of
\* the model.
Coordinates(group, e) ==
    IF group = "G1"
    THEN to_repr(AffineX(e)) \o to_repr(AffineY(e))
    ELSE to_repr(0) \o to_repr(AffineX(e)) \o to_repr(0) \o to_repr(AffineY(e))

UncompressedSize(group) ==
    IF group = "G1" THEN G1Uncompressed ELSE G2Uncompressed

CompressedSize(group) ==
    IF group = "G1" THEN G1Compressed ELSE G2Compressed

to_uncompressed(group, e) ==
    IF is_identity(e)
    THEN SetFlag(Zeroes(UncompressedSize(group)), InfinityFlag)
    ELSE Coordinates(group, e)

\* to_compressed without the sort flag.
to_compressed_unsorted(group, e) ==
    IF is_identity(e)
    THEN SetFlag(SetFlag(Zeroes(CompressedSize(group)), InfinityFlag),
                 CompressionFlag)
    ELSE SetFlag(IF group = "G1"
                 THEN to_repr(AffineX(e))
                 ELSE to_repr(0) \o to_repr(AffineX(e)), CompressionFlag)

to_compressed(group, e) ==
    IF is_identity(e)
    THEN SetFlag(SetFlag(Zeroes(CompressedSize(group)), InfinityFlag),
                 CompressionFlag)
    ELSE LET x == IF group = "G1"
                  THEN to_repr(AffineX(e))
                  ELSE to_repr(0) \o to_repr(AffineX(e))
             s == IF YIsLargest(e) THEN SetFlag(x, SortFlag) ELSE x
         IN  SetFlag(s, CompressionFlag)

\* The coordinates of an encoding, flags cleared, one value per FqBytes.
Reprs(bytes) ==
    LET b == ClearFlags(bytes)
    IN  collect([k \in 1 .. (Len(b) \div FqBytes) |->
            from_repr(SubSeq(b, (k - 1) * FqBytes + 1, k * FqBytes))])

\* The x and y an encoding of a group holds: -1 for an unreduced
\* coordinate, 256 for a coordinate of no point of the model.
XYOf(group, reprs) ==
    IF \E k \in 1 .. Len(reprs) : reprs[k] < 0 THEN <<0 - 1, 0 - 1>>
    ELSE IF group = "G1" THEN <<reprs[1], reprs[2]>>
    ELSE IF reprs[1] # 0 \/ reprs[3] # 0 THEN <<256, 256>>
    ELSE <<reprs[2], reprs[4]>>

\* The curve equation, where it is tested.
on_curve_check(p, on_curve) ==
    IF on_curve /\ p = OffCurve THEN NoPoint ELSE p

\* No test of the subgroup.
no_subgroup_check(p) == p

\* is_in_correct_subgroup_assuming_on_curve
subgroup_check(p) == IF p = OffSubgroup THEN NoPoint ELSE p

\* The point with the parsed coordinates xy.
point_of(xy, on_curve) ==
    IF xy[1] < 0 THEN NoPoint
    ELSE on_curve_check(PointAt(xy[1], xy[2]), on_curve)

\* from_uncompressed_unchecked: the flags and the coordinates are parsed;
\* on_curve tells whether the curve equation is tested.
from_uncompressed_unchecked(group, bytes, on_curve) ==
    IF HasFlag(bytes[1], CompressionFlag) THEN NoPoint
    ELSE IF HasFlag(bytes[1], InfinityFlag)
    THEN IF bytes = to_uncompressed(group, 0) THEN 0 ELSE NoPoint
    ELSE IF HasFlag(bytes[1], SortFlag) THEN NoPoint
    ELSE point_of(XYOf(group, Reprs(bytes)), on_curve)

\* from_uncompressed: on the curve and in the subgroup, or nothing.
from_uncompressed(group, bytes) ==
    subgroup_check(from_uncompressed_unchecked(group, bytes, TRUE))

\* The x a compressed encoding of a group holds.
XOf(group, reprs) ==
    IF \E k \in 1 .. Len(reprs) : reprs[k] < 0 THEN 0 - 1
    ELSE IF group = "G1" THEN reprs[1]
    ELSE IF reprs[1] # 0 THEN 256
    ELSE reprs[2]

\* The point above x with the root the sort flag selects.
point_above(x, largest) ==
    IF x < 0 THEN NoPoint ELSE PointAbove(x, largest)

\* from_compressed: the same for the compressed form.
from_compressed(group, bytes) ==
    IF ~HasFlag(bytes[1], CompressionFlag) THEN NoPoint
    ELSE IF HasFlag(bytes[1], InfinityFlag)
    THEN IF bytes = to_compressed(group, 0) THEN 0 ELSE NoPoint
    ELSE subgroup_check(point_above(XOf(group, Reprs(bytes)),
                                    HasFlag(bytes[1], SortFlag)))

\* ------------------------------------------------------------------------
\* Readers and writers (std::io::Read on a byte slice, Write on a Vec<u8>)
\* ------------------------------------------------------------------------

\* The result of a read: the value and the position after it, or the kind
\* of the io::Error.
IoOk(val, pos) == [ok |-> TRUE, kind |-> "Ok", val |-> val, pos |-> pos]

IoErr(kind) == [ok |-> FALSE, kind |-> kind, val |-> <<>>, pos |-> 0]

\* read_exact reporting a short slice as InvalidData.
read_exact_invalid_data(buf, pos, n) ==
    IF pos + n - 1 > Len(buf)
    THEN IoErr("InvalidData")
    ELSE IoOk(SubSeq(buf, pos, pos + n - 1), pos + n)

\* read_exact of n bytes at pos fails with UnexpectedEof on a short slice.
read_exact(buf, pos, n) ==
    IF pos + n - 1 > Len(buf)
    THEN IoErr("UnexpectedEof")
    ELSE IoOk(SubSeq(buf, pos, pos + n - 1), pos + n)

\* write_u32::<LittleEndian>(len as u32)
write_u32_le(n) ==
    <<n % 256, (n \div 256) % 256, (n \div 65536) % 256,
      (n \div 16777216) % 256>>

\* write_u32::<BigEndian>(len as u32)
write_u32(n) ==
    <<(n \div 16777216) % 256, (n \div 65536) % 256, (n \div 256) % 256,
      n % 256>>

\* The same four bytes read little-endian.
from_le_bytes(b) ==
    IF b[4] >= 128 THEN 2147483647
    ELSE ((b[4] * 256 + b[3]) * 256 + b[2]) * 256 + b[1]

\* Four bytes, big-endian, as a usize.
from_be_bytes(b) ==
    IF b[1] >= 128 THEN 2147483647
    ELSE ((b[1] * 256 + b[2]) * 256 + b[3]) * 256 + b[4]

u32_of(r) == IF ~r.ok THEN r ELSE IoOk(from_be_bytes(r.val), r.pos)

\* read_u32::<BigEndian>() as usize
read_u32(buf, pos) == u32_of(read_exact(buf, pos, 4))

\* What the closures do with the decoded point: an error for no point
\* and, where the closure tests it, for the point at infinity.
accept_point(affine, pos, reject_identity) ==
    IF affine = NoPoint THEN IoErr("InvalidData")
    ELSE IF reject_identity /\ is_identity(affine) THEN IoErr("InvalidData")
    ELSE IoOk(affine, pos)

decode_uncompressed(repr, group, checked, on_curve, reject_identity) ==
    IF ~repr.ok THEN repr
    ELSE accept_point(
             IF checked
             THEN from_uncompressed(group, repr.val)
             ELSE from_uncompressed_unchecked(group, repr.val, on_curve),
             repr.pos, reject_identity)

\* An uncompressed point at pos: the bytes, the decoding and, where the
\* caller asks for it, the rejection of the identity.
read_uncompressed(group, buf, pos, checked, on_curve, reject_identity) ==
    decode_uncompressed(read_exact(buf, pos, UncompressedSize(group)),
                        group, checked, on_curve, reject_identity)

\* fn read_g1 and fn read_g2 of the module.
read_g1(buf, pos, checked, on_curve) ==
    read_uncompressed("G1", buf, pos, checked, on_curve, TRUE)

read_g2(buf, pos, checked, on_curve) ==
    read_uncompressed("G2", buf, pos, checked, on_curve, TRUE)

\* The closures of VerifyingKey::read: from_uncompressed, nothing else.
vk_read_g1(buf, pos) == read_uncompressed("G1", buf, pos, TRUE, TRUE, FALSE)

vk_read_g2(buf, pos) == read_uncompressed("G2", buf, pos, TRUE, TRUE, FALSE)

decode_compressed(repr, group) ==
    IF ~repr.ok THEN repr
    ELSE accept_point(from_compressed(group, repr.val), repr.pos, TRUE)

\* The closures of Proof::read: from_compressed, then no identity.
read_compressed(group, buf, pos) ==
    decode_compressed(read_exact(buf, pos, CompressedSize(group)), group)

\* v.insert(0, e?)
push_front(v, e) == IF ~e.ok THEN e ELSE IoOk(<<e.val>> \o v, e.pos)

\* v.push(e?)
push(v, e) == IF ~e.ok THEN e ELSE IoOk(Append(v, e.val), e.pos)

\* for _ in 0..len { v.push(read_g*(reader, checked)?) }
RECURSIVE read_elements(_, _, _, _, _, _, _)
read_more(first, group, buf, len, checked, on_curve) ==
    IF ~first.ok THEN first
    ELSE read_elements(group, buf, first.pos, len, checked, on_curve,
                       first.val)

read_elements(group, buf, pos, len, checked, on_curve, v) ==
    IF len = 0 THEN IoOk(v, pos)
    ELSE IF len = 1
    THEN push(v, IF group = "G1"
                 THEN read_g1(buf, pos, checked, on_curve)
                 ELSE read_g2(buf, pos, checked, on_curve))
    ELSE read_more(read_elements(group, buf, pos, len \div 2, checked,
                                 on_curve, v),
                   group, buf, len - len \div 2, checked, on_curve)

read_counted(len, group, buf, checked, on_curve) ==
    IF ~len.ok THEN len
    ELSE read_elements(group, buf, len.pos, len.val, checked, on_curve, <<>>)

\* A count and that many points.
read_vector(group, buf, pos, checked, on_curve) ==
    read_counted(read_u32(buf, pos), group, buf, checked, on_curve)

\* for g in &v[..] { writer.write_all(g.to_uncompressed().as_ref())? }
RECURSIVE write_elements(_, _, _, _)
write_elements(group, v, lo, hi) ==
    IF lo > hi THEN <<>>
    ELSE IF lo = hi THEN to_uncompressed(group, v[lo])
    ELSE LET mid == (lo + hi) \div 2
         IN  write_elements(group, v, lo, mid)
                 \o write_elements(group, v, mid + 1, hi)

\* The count, then the points.
write_vector(group, v) ==
    write_u32(Len(v)) \o write_elements(group, v, 1, Len(v))

\* "let name = e?;" after the fields read so far: the error of e, or the
\* fields with name added and the position after it.
field(st, name, e) ==
    IF ~e.ok THEN e ELSE IoOk(st.val @@ (name :> e.val), e.pos)

\* Nothing read yet, the reader at pos.
no_fields(pos) == IoOk(<<>>, pos)

\* A field of Proof::read.
compressed_field(st, buf, name, group) ==
    IF ~st.ok THEN st
    ELSE field(st, name, read_compressed(group, buf, st.pos))

\* One of the six elements VerifyingKey::read reads first.
vk_field(st, buf, name, group) ==
    IF ~st.ok THEN st
    ELSE field(st, name, IF group = "G1"
                         THEN vk_read_g1(buf, st.pos)
                         ELSE vk_read_g2(buf, st.pos))

\* A field that is a vector of points.
vector_field(st, buf, name, group, checked, on_curve) ==
    IF ~st.ok THEN st
    ELSE field(st, name, read_vector(group, buf, st.pos, checked, on_curve))

\* Proof::write
Proof_write(p) ==
    to_compressed("G1", p.a) \o to_compressed("G2", p.b)
        \o to_compressed("G1", p.c)

\* Proof::read
Proof_read(buf) ==
    compressed_field(
        compressed_field(
            compressed_field(no_fields(1), buf, "a", "G1"),
            buf, "b", "G2"),
        buf, "c", "G1")

\* VerifyingKey::write
VerifyingKey_write(vk) ==
    to_uncompressed("G1", vk.alpha_g1) \o to_uncompressed("G1", vk.beta_g1)
        \o to_uncompressed("G2", vk.beta_g2)
        \o to_uncompressed("G2", vk.gamma_g2)
        \o to_uncompressed("G1", vk.delta_g1)
        \o to_uncompressed("G2", vk.delta_g2)
        \o write_vector("G1", vk.ic)

\* VerifyingKey::read: the six elements, then ic through read_g1 with
\* from_uncompressed and the test for the point at infinity.
VerifyingKey_read(buf, pos) ==
    vector_field(
        vk_field(
            vk_field(
                vk_field(
                    vk_field(
                        vk_field(
                            vk_field(no_fields(pos), buf, "alpha_g1", "G1"),
                            buf, "beta_g1", "G1"),
                        buf, "beta_g2", "G2"),
                    buf, "gamma_g2", "G2"),
                buf, "delta_g1", "G1"),
            buf, "delta_g2", "G2"),
        buf, "ic", "G1", TRUE, TRUE)

\* Parameters::write
Parameters_write(params) ==
    VerifyingKey_write(params.vk) \o write_vector("G1", params.h)
        \o write_vector("G1", params.l) \o write_vector("G1", params.a)
        \o write_vector("G1", params.b_g1) \o write_vector("G2", params.b_g2)

\* Parameters::read
Parameters_read(buf, pos, checked, on_curve) ==
    vector_field(
        vector_field(
            vector_field(
                vector_field(
                    vector_field(
                        field(no_fields(pos), "vk",
                              VerifyingKey_read(buf, pos)),
                        buf, "h", "G1", checked, on_curve),
                    buf, "l", "G1", checked, on_curve),
                buf, "a", "G1", checked, on_curve),
            buf, "b_g1", "G1", checked, on_curve),
        buf, "b_g2", "G2", checked, on_curve)

\* ExtendedParameters::write
ExtendedParameters_write(xp) ==
    Parameters_write(xp.params) \o write_vector("G1", xp.taus_g1)
        \o write_vector("G2", xp.taus_g2)

\* ExtendedParameters::read
ExtendedParameters_read(buf, pos, checked, on_curve) ==
    vector_field(
        vector_field(
            field(no_fields(pos), "params",
                  Parameters_read(buf, pos, checked, on_curve)),
            buf, "taus_g1", "G1", checked, on_curve),
        buf, "taus_g2", "G2", checked, on_curve)

\* ------------------------------------------------------------------------
\* State
\* ------------------------------------------------------------------------

VARIABLES
    self,        \* the ExtendedParameters verify is called on
    circuit,     \* the circuit passed to verify
    origin,      \* how self was produced (never read by verify)
    pc,          \* the position of the running verify call
    results,     \* the results of the calls made so far, oldest first
    events,      \* what the running (or last) call has done, in order
    rng_calls,   \* scalars drawn from rng by the running (or last) call
    drawn,       \* the scalars the step just taken drew, in drawing order
    assembly,    \* the call's KeypairAssembly
    evaluation,  \* the call's a_g1, b_g1, b_g2, c_g1
    value,       \* the Proof, VerifyingKey, Parameters or ExtendedParameters
                 \* that is written
    stage,       \* how far the writing and reading of value has got
    buffer,      \* the bytes written, or a prefix of them
    cut,         \* whether buffer was truncated
    decoded,     \* what read returned, and with which checked flag
    cs,          \* a KeypairAssembly a circuit is synthesizing into
    returned,    \* the calls made on cs and what each returned, in order
    passed,      \* what each of those calls was given: the result its value
                 \* closure would produce, or the linear combinations
    job,         \* the CRS and assembly a worker.scope evaluation works on
    chunk,       \* the chunk size worker.scope hands to its closure
    tasks,       \* the spawned tasks, in spawning order
    outputs,     \* a_g1, b_g1, b_g2, c_g1 as the tasks have filled them
    writers,     \* for every output slot, the tasks that wrote it
    scope,       \* whether the scope is open, has joined or has panicked
    seen,        \* the outputs as verify read them after the scope
    element,     \* a group, the encoding of its scalars and an element of it
    bits,        \* the bits is_torsion_free has still to go through
    res_point,   \* is_torsion_free's accumulator res
    answers      \* what is_small_order and is_torsion_free returned

verifyVars == <<self, circuit, origin, pc, results, events, rng_calls, drawn,
                assembly, evaluation>>

codecVars == <<value, stage, buffer, cut, decoded>>

assemblyVars == <<cs, returned, passed>>

scopeVars == <<job, chunk, tasks, outputs, writers, scope, seen>>

cofactorVars == <<element, bits, res_point, answers>>

vars == <<verifyVars, codecVars, assemblyVars, scopeVars, cofactorVars>>

\* No value is being written or read.
CodecIdle ==
    /\ value = <<>>
    /\ stage = "idle"
    /\ buffer = <<>>
    /\ cut = FALSE
    /\ decoded = <<>>

\* No circuit is being synthesized outside verify.
AssemblyIdle ==
    /\ cs = KeypairAssembly
    /\ returned = <<>>
    /\ passed = <<>>

NoEvaluation == [a_g1 |-> <<>>, b_g1 |-> <<>>, b_g2 |-> <<>>, c_g1 |-> <<>>]

\* No evaluation is running in a worker scope.
ScopeIdle ==
    /\ job = <<>>
    /\ chunk = 0
    /\ tasks = <<>>
    /\ outputs = NoEvaluation
    /\ writers = <<>>
    /\ scope = "idle"
    /\ seen = NoEvaluation

\* No group element is being examined.
CofactorIdle ==
    /\ element = <<>>
    /\ bits = <<>>
    /\ res_point = 0
    /\ answers = <<>>

Init ==
    /\ \E x \in Inputs :
          /\ self = x.xp
          /\ circuit = x.circuit
          /\ origin = x.origin
    /\ pc = "call"
    /\ results = <<>>
    /\ events = <<>>
    /\ rng_calls = 0
    /\ drawn = <<>>
    /\ assembly = KeypairAssembly
    /\ evaluation = NoEvaluation
    /\ CodecIdle
    /\ AssemblyIdle
    /\ ScopeIdle
    /\ CofactorIdle

\* The call ends with res; a panic ends the program.
Return(res) ==
    /\ results' = Append(results, res)
    /\ pc' = IF res = "Panic" THEN "aborted" ELSE "call"

\* The order of the blocks with the powers-of-tau block ahead of the H-query
\* block.
followingTausFirst(block) ==
    CASE block = "entry" -> "nondegeneracy"
      [] block = "nondegeneracy" -> "crossgroup"
      [] block = "crossgroup" -> "taus"
      [] block = "taus" -> "hquery"
      [] block = "hquery" -> "synthesis"
      [] block = "synthesis" -> "evaluation"
      [] block = "evaluation" -> "sizes"
      [] block = "sizes" -> "validation"
      [] block = "validation" -> "equality"

\* The blocks of verify, in the order the function body runs them.
following(block) ==
    CASE block = "entry" -> "nondegeneracy"
      [] block = "nondegeneracy" -> "crossgroup"
      [] block = "crossgroup" -> "hquery"
      [] block = "hquery" -> "taus"
      [] block = "taus" -> "synthesis"
      [] block = "synthesis" -> "evaluation"
      [] block = "evaluation" -> "sizes"
      [] block = "sizes" -> "validation"
      [] block = "validation" -> "equality"

\* A failed check that is noted but does not end the call.
OutcomeWithoutReturn(out, block) ==
    IF out \in {"pass", "MalformedCrs"}
    THEN pc' = following(block) /\ results' = results
    ELSE Return(out)

\* if <check fails> { return Err(..) }: a block's outcome either ends the
\* call or lets it go on with the block that follows.
Outcome(out, block) ==
    IF out = "pass"
    THEN pc' = following(block) /\ results' = results
    ELSE Return(out)

\* ------------------------------------------------------------------------
\* ExtendedParameters::verify, one action per block of the function
\* ------------------------------------------------------------------------

\* A call starts: the length assertion, g1 = taus_g1[0], g2 = taus_g2[0].
VerifyEntry ==
    /\ pc = "call"
    /\ Len(results) < MaxCalls
    /\ events' = <<"entry">>
    /\ rng_calls' = 0
    /\ drawn' = <<>>
    /\ assembly' = KeypairAssembly
    /\ evaluation' = NoEvaluation
    /\ Outcome(EntryCheck(self), "entry")
    /\ UNCHANGED <<self, circuit, origin>>
    /\ UNCHANGED <<codecVars, assemblyVars, scopeVars, cofactorVars>>

NonDegeneracy ==
    /\ pc = "nondegeneracy"
    /\ events' = Append(events, "nondegeneracy")
    /\ drawn' = <<>>
    /\ Outcome(NonDegeneracyCheck(self), "nondegeneracy")
    /\ UNCHANGED <<self, circuit, origin, rng_calls, assembly, evaluation>>
    /\ UNCHANGED <<codecVars, assemblyVars, scopeVars, cofactorVars>>

CrossGroup ==
    /\ pc = "crossgroup"
    /\ events' = Append(events, "crossgroup")
    /\ drawn' = <<>>
    /\ Outcome(CrossGroupCheck(self), "crossgroup")
    /\ UNCHANGED <<self, circuit, origin, rng_calls, assembly, evaluation>>
    /\ UNCHANGED <<codecVars, assemblyVars, scopeVars, cofactorVars>>

\* r is drawn, then the lengths are asserted, then the product is checked.
HQueryValidation ==
    /\ pc = "hquery"
    /\ \E r \in [1 .. Degree(self) -> RngScalars] :
          /\ drawn' = collect(r)
          /\ Outcome(HQueryCheck(self, collect(r)), "hquery")
    /\ rng_calls' = rng_calls + Degree(self)
    /\ events' = events \o <<"rng_r", "hquery">>
    /\ UNCHANGED <<self, circuit, origin, assembly, evaluation>>
    /\ UNCHANGED <<codecVars, assemblyVars, scopeVars, cofactorVars>>

\* p and q are drawn, then the product is checked.
PowersOfTauValidation ==
    /\ pc = "taus"
    /\ \E p \in [1 .. Degree(self) -> RngScalars],
          q \in [1 .. Degree(self) -> RngScalars] :
          /\ drawn' = collect(p) \o collect(q)
          /\ Outcome(TausCheck(self, collect(p), collect(q)), "taus")
    /\ rng_calls' = rng_calls + 2 * Degree(self)
    /\ events' = events \o <<"rng_p", "rng_q", "taus">>
    /\ UNCHANGED <<self, circuit, origin, assembly, evaluation>>
    /\ UNCHANGED <<codecVars, assemblyVars, scopeVars, cofactorVars>>

\* The circuit's error is reported as a malformed CRS, after the input
\* constraints.
QapSynthesisHidingError ==
    /\ pc = "synthesis"
    /\ LET syn == synthesize(circuit, alloc_input(KeypairAssembly)) IN
          /\ assembly' = InputConstraints(syn.cs, 0)
          /\ Outcome(IF syn.ok THEN "pass" ELSE "MalformedCrs", "synthesis")
    /\ events' = Append(events, "synthesize")
    /\ drawn' = <<>>
    /\ UNCHANGED <<self, circuit, origin, rng_calls, evaluation>>
    /\ UNCHANGED <<codecVars, assemblyVars, scopeVars, cofactorVars>>

\* The loop over the inputs leaves out the constant one.
QapSynthesisConstrainingFromOne ==
    /\ pc = "synthesis"
    /\ LET syn == synthesize(circuit, alloc_input(KeypairAssembly)) IN
          /\ assembly' = IF syn.ok THEN InputConstraints(syn.cs, 1) ELSE syn.cs
          /\ Outcome(IF syn.ok THEN "pass" ELSE "SynthesisError", "synthesis")
    /\ events' = Append(events, "synthesize")
    /\ drawn' = <<>>
    /\ UNCHANGED <<self, circuit, origin, rng_calls, evaluation>>
    /\ UNCHANGED <<codecVars, assemblyVars, scopeVars, cofactorVars>>

\* The "one" input, circuit.synthesize (whose error is returned as it is),
\* then one constraint per input.
QapSynthesis ==
    /\ pc = "synthesis"
    /\ LET syn == QapSynthesisOf(circuit) IN
          /\ assembly' = syn.cs
          /\ Outcome(IF syn.ok THEN "pass" ELSE "SynthesisError", "synthesis")
    /\ events' = Append(events, "synthesize")
    /\ drawn' = <<>>
    /\ UNCHANGED <<self, circuit, origin, rng_calls, evaluation>>
    /\ UNCHANGED <<codecVars, assemblyVars, scopeVars, cofactorVars>>

\* The Lagrange coefficients and the per-wire evaluations.
QapEvaluation ==
    /\ pc = "evaluation"
    /\ LET ev == QapEvaluationOf(self, assembly) IN
          /\ evaluation' = [a_g1 |-> ev.a_g1, b_g1 |-> ev.b_g1,
                            b_g2 |-> ev.b_g2, c_g1 |-> ev.c_g1]
          /\ Outcome(ev.outcome, "evaluation")
    /\ events' = Append(events, "evaluation")
    /\ drawn' = <<>>
    /\ UNCHANGED <<self, circuit, origin, rng_calls, assembly>>
    /\ UNCHANGED <<codecVars, assemblyVars, scopeVars, cofactorVars>>

\* assert_eq!(self.params.l.len(), assembly.num_aux)
Sizes ==
    /\ pc = "sizes"
    /\ Outcome(SizesCheck(self, assembly), "sizes")
    /\ events' = Append(events, "sizes")
    /\ drawn' = <<>>
    /\ UNCHANGED <<self, circuit, origin, rng_calls, assembly, evaluation>>
    /\ UNCHANGED <<codecVars, assemblyVars, scopeVars, cofactorVars>>

\* z is drawn with r, p and q already: the validation finds it drawn.
CircuitValidationWithEarlyZ ==
    /\ pc = "validation"
    /\ \E z \in [1 .. (assembly.num_inputs + assembly.num_aux) -> RngScalars] :
          /\ drawn' = collect(z)
          /\ Outcome(CircuitCheck(self, assembly, evaluation, collect(z)),
                     "validation")
    /\ rng_calls' = rng_calls
    /\ events' = Append(events, "validation")
    /\ UNCHANGED <<self, circuit, origin, assembly, evaluation>>
    /\ UNCHANGED <<codecVars, assemblyVars, scopeVars, cofactorVars>>

\* z is drawn, one scalar per wire, then the product is checked.
CircuitValidation ==
    /\ pc = "validation"
    /\ \E z \in [1 .. (assembly.num_inputs + assembly.num_aux) -> RngScalars] :
          /\ drawn' = collect(z)
          /\ Outcome(CircuitCheck(self, assembly, evaluation, collect(z)),
                     "validation")
    /\ rng_calls' = rng_calls + assembly.num_inputs + assembly.num_aux
    /\ events' = events \o <<"rng_z", "validation">>
    /\ UNCHANGED <<self, circuit, origin, assembly, evaluation>>
    /\ UNCHANGED <<codecVars, assemblyVars, scopeVars, cofactorVars>>

\* The stored a, b_g1, b_g2 against the computed ones, then Ok(()).
StructuralEquality ==
    /\ pc = "equality"
    /\ Return(EqualityCheck(self, evaluation))
    /\ events' = Append(events, "equality")
    /\ drawn' = <<>>
    /\ UNCHANGED <<self, circuit, origin, rng_calls, assembly, evaluation>>
    /\ UNCHANGED <<codecVars, assemblyVars, scopeVars, cofactorVars>>

Next ==
    \/ VerifyEntry
    \/ NonDegeneracy
    \/ CrossGroup
    \/ HQueryValidation
    \/ PowersOfTauValidation
    \/ QapSynthesis
    \/ QapEvaluation
    \/ Sizes
    \/ CircuitValidation
    \/ StructuralEquality

Spec == Init /\ [][Next]_vars

\* ------------------------------------------------------------------------
\* Writing and reading Proof, VerifyingKey, Parameters, ExtendedParameters
\* ------------------------------------------------------------------------

Typed(type, x) == [type |-> type, x |-> x]

\* The fields that hold one element and the fields that hold a vector.
VkElementFields ==
    {"alpha_g1", "beta_g1", "beta_g2", "gamma_g2", "delta_g1", "delta_g2"}

ParametersVectorFields == {"h", "l", "a", "b_g1", "b_g2"}

TausFields == {"taus_g1", "taus_g2"}

\* xp with the element e in the field f (the first entry of a vector).
Put(xp, f, e) ==
    IF f \in VkElementFields THEN [xp EXCEPT !.params.vk[f] = e]
    ELSE IF f = "ic" THEN [xp EXCEPT !.params.vk.ic[1] = e]
    ELSE IF f \in ParametersVectorFields THEN [xp EXCEPT !.params[f][1] = e]
    ELSE [xp EXCEPT ![f][1] = e]

\* The elements a value holds.
Range(s) == { s[i] : i \in 1 .. Len(s) }

VkElements(vk) == { vk[f] : f \in VkElementFields } \cup Range(vk.ic)

ParametersElements(params) ==
    VkElements(params.vk)
        \cup UNION { Range(params[f]) : f \in ParametersVectorFields }

ElementsOf(v) ==
    CASE v.type = "Proof" -> {v.x.a, v.x.b, v.x.c}
      [] v.type = "VerifyingKey" -> VkElements(v.x)
      [] v.type = "Parameters" -> ParametersElements(v.x)
      [] v.type = "ExtendedParameters" ->
            ParametersElements(v.x.params) \cup Range(v.x.taus_g1)
                \cup Range(v.x.taus_g2)

\* Every element is a point of the prime-order subgroup.
InSubgroup(v) == ElementsOf(v) \subseteq Fr

\* No element is the identity.
NoIdentityIn(v) == 0 \notin ElementsOf(v)

\* The generator's output for the circuits of the model.
GeneratedValues ==
    { generate_extended_parameters(c, t) : c \in SetupCircuits, t \in Trapdoors }

\* The CRS the edited values start from.
BaseValue ==
    generate_extended_parameters(MySillyCircuit(1),
        [tau |-> 2, alpha |-> 3, beta |-> 5, gamma |-> 7, delta |-> 11])

\* What a hostile stream can hold in place of a subgroup point.
BadElements == {0, OffSubgroup, OffCurve}

ProofValues ==
    { [a |-> a, b |-> b, c |-> c] : a \in {3, 12}, b \in {5, 16}, c \in {1, 9} }
        \cup { [a |-> e, b |-> 5, c |-> 1] : e \in BadElements }
        \cup { [a |-> 3, b |-> e, c |-> 1] : e \in BadElements }
        \cup { [a |-> 3, b |-> 5, c |-> e] : e \in BadElements }

\* The lengths of the generator's output for a circuit in which no wire's
\* polynomial vanishes at tau: one ic per input, m - 1 entries of h, one l
\* per auxiliary wire, one a (b) per wire that occurs in an A (B)
\* combination.
Ones(n) == collect([i \in 1 .. n |-> 1])

Occurring(wires) == Cardinality({ w \in 1 .. Len(wires) : wires[w] # <<>> })

generated_shape(ops) ==
    LET asm == QapSynthesisOf(ops).cs
        m == DomainSize(asm.num_constraints)
    IN  [vk |-> [alpha_g1 |-> 1, beta_g1 |-> 1, beta_g2 |-> 1,
                 gamma_g2 |-> 1, delta_g1 |-> 1, delta_g2 |-> 1,
                 ic |-> Ones(asm.num_inputs)],
         h |-> Ones(m - 1),
         l |-> Ones(asm.num_aux),
         a |-> Ones(Occurring(WiresA(asm))),
         b_g1 |-> Ones(Occurring(WiresB(asm))),
         b_g2 |-> Ones(Occurring(WiresB(asm)))]

\* The number of gates of tests::MySillyCircuit.
TestGates == 100

CodecValues ==
    { Typed("ExtendedParameters", x) : x \in GeneratedValues }
        \cup { Typed("Parameters", x.params) : x \in GeneratedValues }
        \cup { Typed("VerifyingKey", x.params.vk) : x \in GeneratedValues }
        \cup { Typed("Proof", p) : p \in ProofValues }
        \cup { Typed("ExtendedParameters", Put(BaseValue, f, e)) :
                 f \in VkElementFields \cup {"ic"} \cup ParametersVectorFields
                        \cup TausFields,
                 e \in BadElements }
        \cup { Typed("Parameters", Put(BaseValue, f, e).params) :
                 f \in VkElementFields \cup {"ic"} \cup ParametersVectorFields,
                 e \in BadElements }
        \cup { Typed("VerifyingKey", Put(BaseValue, f, e).params.vk) :
                 f \in VkElementFields \cup {"ic"}, e \in BadElements }
        \cup { Typed("ExtendedParameters",
                     [BaseValue EXCEPT !.taus_g2 = DropLast(@)]),
               Typed("ExtendedParameters",
                     [BaseValue EXCEPT !.taus_g1 = DropLast(@)]) }
        \cup { Typed("Parameters", generated_shape(MySillyCircuit(TestGates))),
               Typed("Parameters", generated_shape(MySillyCircuit(1))) }

\* The values whose encodings are also read truncated.
TruncatedValues ==
    { Typed("ExtendedParameters", BaseValue),
      Typed("Parameters", BaseValue.params),
      Typed("VerifyingKey", BaseValue.params.vk),
      Typed("Proof", [a |-> 3, b |-> 5, c |-> 1]) }

\* No verify call is running.
VerifyIdle ==
    /\ self = <<>>
    /\ circuit = <<>>
    /\ origin = <<>>
    /\ pc = "idle"
    /\ results = <<>>
    /\ events = <<>>
    /\ rng_calls = 0
    /\ drawn = <<>>
    /\ assembly = KeypairAssembly
    /\ evaluation = NoEvaluation

CodecInit ==
    /\ VerifyIdle
    /\ AssemblyIdle
    /\ ScopeIdle
    /\ CofactorIdle
    /\ value \in CodecValues
    /\ stage = "value"
    /\ buffer = <<>>
    /\ cut = FALSE
    /\ decoded = <<>>

\* let mut v = vec![]; x.write(&mut v).unwrap();
Written(type, bytes) ==
    /\ stage = "value"
    /\ value.type = type
    /\ buffer' = bytes
    /\ stage' = "written"
    /\ UNCHANGED <<value, cut, decoded, verifyVars, assemblyVars,
                 scopeVars, cofactorVars>>

WriteProof == Written("Proof", Proof_write(value.x))

WriteVerifyingKey == Written("VerifyingKey", VerifyingKey_write(value.x))

WriteParameters == Written("Parameters", Parameters_write(value.x))

WriteExtendedParameters ==
    Written("ExtendedParameters", ExtendedParameters_write(value.x))

\* The stream ends early: a proper prefix of what was written.
Truncate ==
    /\ stage = "written"
    /\ ~cut
    /\ value \in TruncatedValues
    /\ \E n \in 0 .. (Len(buffer) - 1) : buffer' = SubSeq(buffer, 1, n)
    /\ cut' = TRUE
    /\ UNCHANGED <<value, stage, decoded, verifyVars, assemblyVars,
                 scopeVars, cofactorVars>>

\* X::read(&v[..]) or X::read(&v[..], checked)
Decoded(type, checked, on_curve, res) ==
    /\ stage = "written"
    /\ value.type = type
    /\ decoded' = [checked |-> checked, on_curve |-> on_curve,
                   ok |-> res.ok, kind |-> res.kind, val |-> res.val]
    /\ stage' = "read"
    /\ UNCHANGED <<value, buffer, cut, verifyVars, assemblyVars,
                 scopeVars, cofactorVars>>

ReadProof == Decoded("Proof", TRUE, TRUE, Proof_read(buffer))

ReadVerifyingKey ==
    Decoded("VerifyingKey", TRUE, TRUE, VerifyingKey_read(buffer, 1))

\* from_uncompressed_unchecked may or may not test the curve equation.
ReadParameters ==
    \E checked \in BOOLEAN, on_curve \in BOOLEAN :
        /\ checked => on_curve
        /\ Decoded("Parameters", checked, on_curve,
                   Parameters_read(buffer, 1, checked, on_curve))

ReadExtendedParameters ==
    \E checked \in BOOLEAN, on_curve \in BOOLEAN :
        /\ checked => on_curve
        /\ Decoded("ExtendedParameters", checked, on_curve,
                   ExtendedParameters_read(buffer, 1, checked, on_curve))

CodecNext ==
    \/ WriteProof
    \/ WriteVerifyingKey
    \/ WriteParameters
    \/ WriteExtendedParameters
    \/ Truncate
    \/ ReadProof
    \/ ReadVerifyingKey
    \/ ReadParameters
    \/ ReadExtendedParameters

CodecSpec == CodecInit /\ [][CodecNext]_vars

\* ------------------------------------------------------------------------
\* A circuit's calls on a KeypairAssembly
\* ------------------------------------------------------------------------

\* The number of calls made on the assembly.
MaxOps == 4

\* What the closure f handed to alloc or alloc_input would produce if it
\* were called: MySillyCircuit's is self.a.ok_or(AssignmentMissing).
Assignments == {"AssignmentMissing", "Ok"}

\* The index read after the increment.
alloc_result_after(asm, f) == Aux(asm.num_aux + 1)

\* What a call that returns no variable leaves in the log.
NoVariable == [kind |-> "None", id |-> 0]

\* The closure is called and its error is returned, as a prover does.
alloc_result_of_value(asm, f) ==
    IF f = "AssignmentMissing" THEN NoVariable ELSE Aux(asm.num_aux)

\* fn alloc(&mut self, _: A, _: F): let index = self.num_aux; ...
\* Ok(Variable(Index::Aux(index)))
alloc_result(asm, f) == Aux(asm.num_aux)

\* fn alloc_input(&mut self, _: A, _: F): let index = self.num_inputs; ...
\* Ok(Variable(Index::Input(index)))
alloc_input_result(asm, f) == Input(asm.num_inputs)

Call(name, var) == [call |-> name, var |-> var]

\* The variables the calls so far have returned.
Allocated ==
    { returned[i].var :
        i \in { j \in 1 .. Len(returned) : returned[j].var # NoVariable } }

\* The linear combinations a circuit passes to enforce: nothing, or one of
\* its variables with coefficient one.
LinearCombinations == {<<>>} \cup { <<<<1, v>>>> : v \in Allocated }

\* What a circuit passes to enforce: three of those, or a sum of two terms
\* (of one wire or of two) times nothing.
Constraints ==
    (LinearCombinations \X LinearCombinations \X LinearCombinations)
        \cup { << <<<<1, v>>, <<2, w>>>>, <<>>, <<>> >> :
                    v \in Allocated, w \in Allocated }

AssemblyInit ==
    /\ VerifyIdle
    /\ CodecIdle
    /\ ScopeIdle
    /\ CofactorIdle
    /\ cs = KeypairAssembly
    /\ returned = <<>>
    /\ passed = <<>>

Alloc ==
    /\ Len(returned) < MaxOps
    /\ \E f \in Assignments :
          /\ cs' = alloc(cs)
          /\ returned' = Append(returned, Call("alloc", alloc_result(cs, f)))
          /\ passed' = Append(passed, <<f>>)
    /\ UNCHANGED <<verifyVars, codecVars, scopeVars, cofactorVars>>

AllocInput ==
    /\ Len(returned) < MaxOps
    /\ \E f \in Assignments :
          /\ cs' = alloc_input(cs)
          /\ returned' = Append(returned,
                                Call("alloc_input", alloc_input_result(cs, f)))
          /\ passed' = Append(passed, <<f>>)
    /\ UNCHANGED <<verifyVars, codecVars, scopeVars, cofactorVars>>

Enforce ==
    /\ Len(returned) < MaxOps
    /\ \E abc \in Constraints :
          /\ cs' = enforce(cs, abc[1], abc[2], abc[3])
          /\ passed' = Append(passed, abc)
    /\ returned' = Append(returned, Call("enforce", NoVariable))
    /\ UNCHANGED <<verifyVars, codecVars, scopeVars, cofactorVars>>

\* Do nothing; we don't care about namespaces in this context.
PushNamespace ==
    /\ Len(returned) < MaxOps
    /\ cs' = cs
    /\ returned' = Append(returned, Call("push_namespace", NoVariable))
    /\ passed' = Append(passed, <<>>)
    /\ UNCHANGED <<verifyVars, codecVars, scopeVars, cofactorVars>>

PopNamespace ==
    /\ Len(returned) < MaxOps
    /\ cs' = cs
    /\ returned' = Append(returned, Call("pop_namespace", NoVariable))
    /\ passed' = Append(passed, <<>>)
    /\ UNCHANGED <<verifyVars, codecVars, scopeVars, cofactorVars>>

AssemblyNext ==
    \/ Alloc
    \/ AllocInput
    \/ Enforce
    \/ PushNamespace
    \/ PopNamespace

AssemblySpec == AssemblyInit /\ [][AssemblyNext]_vars

\* ------------------------------------------------------------------------
\* The QAP evaluation inside worker.scope
\* ------------------------------------------------------------------------

\* The greatest chunk size worker.scope hands to its closure.
MaxChunk == 3

\* What one evaluation works on: the Lagrange coefficients of the CRS's
\* powers of tau and the wires' lists of the audited circuit, inputs first.
ScopeJob(taus_g1, taus_g2, ops) ==
    LET asm == QapSynthesisOf(ops).cs
    IN  [coeffs_g1 |-> LagrangeCoeffs(taus_g1),
         coeffs_g2 |-> LagrangeCoeffs(taus_g2),
         at |-> WiresA(asm), bt |-> WiresB(asm), ct |-> WiresC(asm)]

\* tau^0, ..., tau^(m-1)
PowersOfTau(tau, m) == collect([i \in 1 .. m |-> Pow(tau, i - 1)])

\* The evaluations followed: those of the calls of verify that synthesize
\* their circuit, and the two-gate circuit on eight powers of a tau outside
\* the domain of size eight.
ScopeJobs ==
    { ScopeJob(y.xp.taus_g1, y.xp.taus_g2, y.circuit) :
        y \in { x \in Inputs :
                  x.origin.edits = <<>> /\ QapSynthesisOf(x.circuit).ok } }
        \cup { ScopeJob(PowersOfTau(t.tau, 8), PowersOfTau(t.tau, 8),
                        MySillyCircuit(2)) :
                  t \in { u \in Trapdoors : Pow(u.tau, 8) # 1 } }

num_wires == Len(job.at)

\* vec![identity; n]
Identities(n) == collect([i \in 1 .. n |-> 0])

OutputNames == <<"a_g1", "b_g1", "b_g2", "c_g1">>

\* chunks(chunk) and chunks_mut(chunk) of a vector of n elements: the
\* number of slices, and the first element (from 0) and length of slice k
\* (from 0).
NumChunks(n) == (n + chunk - 1) \div chunk

ChunkStart(k) == k * chunk

ChunkLen(k, n) == IF (k + 1) * chunk <= n THEN chunk ELSE n - k * chunk

\* The task's i-th list (from 0) taken from the whole vector, not from the
\* task's chunk of it.
wire_of_unchunked(task, i) == i + 1

\* The wire (from 1) whose lists are the task's i-th (from 0): the chunks of
\* at, bt and ct are zipped with the chunks of the outputs.
wire_of(task, i) == task.first + i + 1

ScopeInit ==
    /\ VerifyIdle
    /\ CodecIdle
    /\ AssemblyIdle
    /\ CofactorIdle
    /\ \E j \in ScopeJobs, c \in 1 .. MaxChunk :
          /\ job = j
          /\ chunk = c
          /\ outputs = [a_g1 |-> Identities(Len(j.at)),
                        b_g1 |-> Identities(Len(j.at)),
                        b_g2 |-> Identities(Len(j.at)),
                        c_g1 |-> Identities(Len(j.at))]
          /\ writers = collect([w \in 1 .. Len(j.at) |-> <<>>])
    /\ tasks = <<>>
    /\ scope = "open"
    /\ seen = NoEvaluation

\* scope.spawn for the next chunk: the task owns its slices of the outputs
\* and starts with identities in its projective accumulators.
Spawn ==
    /\ scope = "open"
    /\ Len(tasks) < NumChunks(num_wires)
    /\ LET k == Len(tasks)
           n == ChunkLen(k, num_wires)
       IN  tasks' = Append(tasks,
                [first |-> ChunkStart(k), len |-> n, next |-> 0,
                 status |-> "running",
                 proj |-> [a_g1 |-> Identities(n), b_g1 |-> Identities(n),
                           b_g2 |-> Identities(n), c_g1 |-> Identities(n)]])
    /\ UNCHANGED <<job, chunk, outputs, writers, scope, seen>>
    /\ UNCHANGED <<verifyVars, codecVars, assemblyVars, cofactorVars>>

\* One round of a task's loop: the sums of one wire, or the panic of
\* coeffs[lag] with lag past the end.
TaskWire(t) ==
    /\ tasks[t].status = "running"
    /\ tasks[t].next < tasks[t].len
    /\ LET task == tasks[t]
           i == task.next + 1
           w == wire_of(task, task.next)
           at == job.at[w]
           bt == job.bt[w]
           ct == job.ct[w]
       IN  IF LagOutOfRange(<<at, bt, ct>>, Len(job.coeffs_g1))
           THEN tasks' = [tasks EXCEPT ![t].status = "panicked"]
           ELSE tasks' = [tasks EXCEPT
                    ![t].next = @ + 1,
                    ![t].proj.a_g1[i] = EvalWire(at, job.coeffs_g1),
                    ![t].proj.b_g1[i] = EvalWire(bt, job.coeffs_g1),
                    ![t].proj.b_g2[i] = EvalWire(bt, job.coeffs_g2),
                    ![t].proj.c_g1[i] = EvalWire(ct, job.coeffs_g1)]
    /\ UNCHANGED <<job, chunk, outputs, writers, scope, seen>>
    /\ UNCHANGED <<verifyVars, codecVars, assemblyVars, cofactorVars>>

\* The four batch_normalize calls that end a task: its accumulators are
\* written to its slices of the four outputs.
TaskNormalize(t) ==
    /\ tasks[t].status = "running"
    /\ tasks[t].next = tasks[t].len
    /\ LET task == tasks[t]
           mine == (task.first + 1) .. (task.first + task.len)
           written(name) ==
               collect([w \in 1 .. num_wires |->
                   IF w \in mine THEN task.proj[name][w - task.first]
                   ELSE outputs[name][w]])
       IN  /\ outputs' = [a_g1 |-> written("a_g1"), b_g1 |-> written("b_g1"),
                          b_g2 |-> written("b_g2"), c_g1 |-> written("c_g1")]
           /\ writers' = collect([w \in 1 .. num_wires |->
                    IF w \in mine
                    THEN writers[w] \o collect([k \in 1 .. Len(OutputNames) |->
                                                  <<t, OutputNames[k]>>])
                    ELSE writers[w]])
           /\ tasks' = [tasks EXCEPT ![t].status = "finished"]
    /\ UNCHANGED <<job, chunk, scope, seen>>
    /\ UNCHANGED <<verifyVars, codecVars, assemblyVars, cofactorVars>>

\* The scope ends when every chunk has been spawned and every task has
\* ended; a task's panic is the scope's. After it verify reads the outputs.
Join ==
    /\ scope = "open"
    /\ Len(tasks) = NumChunks(num_wires)
    /\ \A t \in 1 .. Len(tasks) : tasks[t].status \in {"finished", "panicked"}
    /\ IF \E t \in 1 .. Len(tasks) : tasks[t].status = "panicked"
       THEN scope' = "panicked" /\ seen' = seen
       ELSE scope' = "joined" /\ seen' = outputs
    /\ UNCHANGED <<job, chunk, tasks, outputs, writers>>
    /\ UNCHANGED <<verifyVars, codecVars, assemblyVars, cofactorVars>>

ScopeNext ==
    \/ Spawn
    \/ \E t \in 1 .. Len(tasks) : TaskWire(t)
    \/ \E t \in 1 .. Len(tasks) : TaskNormalize(t)
    \/ Join

ScopeSpec == ScopeInit /\ [][ScopeNext]_vars

\* ------------------------------------------------------------------------
\* CofactorGroup::is_small_order and CofactorGroup::is_torsion_free
\* ------------------------------------------------------------------------

\* The number of bytes of a scalar's representation.
ReprBytes == 2

\* Groups with a prime-order subgroup of order r (the characteristic of the
\* scalar field) and cofactor h. An element is <<t, s>>: t its torsion
\* component, of an order dividing h, and s its component in the subgroup.
CofactorGroups == { [r |-> 263, h |-> 4], [r |-> 17, h |-> 6] }

\* ff::Endianness of the scalar's representation.
Endiannesses == {"Little", "Big"}

\* Self::identity(), add_assign and double, component by component.
group_identity == <<0, 0>>

add_assign(p, q, g) == <<(p[1] + q[1]) % g.h, (p[2] + q[2]) % g.r>>

double(p, g) == add_assign(p, p, g)

\* [h] self, in the prime-order subgroup.
mul_by_cofactor(p, g) == <<0, (g.h * p[2]) % g.r>>

\* Self::Scalar::char(): the modulus as ReprBytes bytes in the field's
\* endianness.
RECURSIVE LittleEndianBytes(_, _)
LittleEndianBytes(n, len) ==
    IF len = 0 THEN <<>>
    ELSE <<n % 256>> \o LittleEndianBytes(n \div 256, len - 1)

Reverse(s) == collect([i \in 1 .. Len(s) |-> s[Len(s) + 1 - i]])

scalar_char(g, endianness) ==
    IF endianness = "Little" THEN LittleEndianBytes(g.r, ReprBytes)
    ELSE Reverse(LittleEndianBytes(g.r, ReprBytes))

\* ReprEndianness::toggle_little_endian: a big-endian representation is
\* reversed, a little-endian one is left alone.
toggle_little_endian(bytes, endianness) ==
    IF endianness = "Big" THEN Reverse(bytes) ELSE bytes

\* BitIterator::<u8, _>::new(t): the bits from bit 7 of the last byte down
\* to bit 0 of the first.
BitIterator(t) ==
    collect([k \in 1 .. (8 * Len(t)) |->
        LET n == 8 * Len(t) - k
        IN  (t[(n \div 8) + 1] \div (2 ^ (n % 8))) % 2 = 1])

\* self is added before res is doubled.
add_and_double(r, i, p, g) ==
    double(IF i THEN add_assign(r, p, g) ELSE r, g)

\* res = res.double(); if i { res.add_assign(self) }
double_and_add(r, i, p, g) ==
    IF i THEN add_assign(double(r, g), p, g) ELSE double(r, g)

NoAnswers == [at |-> "start", small_order |-> <<>>, torsion_free |-> <<>>]

CofactorInit ==
    /\ VerifyIdle
    /\ CodecIdle
    /\ AssemblyIdle
    /\ ScopeIdle
    /\ \E g \in CofactorGroups, e \in Endiannesses :
          \E t \in 0 .. (g.h - 1), s \in 0 .. (g.r - 1) :
              element = [group |-> g, endianness |-> e, point |-> <<t, s>>]
    /\ bits = <<>>
    /\ res_point = group_identity
    /\ answers = NoAnswers

\* self.mul_by_cofactor().is_identity()
IsSmallOrder ==
    /\ answers.small_order = <<>>
    /\ answers' = [answers EXCEPT !.small_order =
          << mul_by_cofactor(element.point, element.group) = group_identity >>]
    /\ UNCHANGED <<element, bits, res_point>>
    /\ UNCHANGED <<verifyVars, codecVars, assemblyVars, scopeVars>>

\* is_torsion_free up to its loop: char, made little-endian, and its bits.
TorsionFreeStart ==
    /\ answers.at = "start"
    /\ bits' = BitIterator(
          toggle_little_endian(scalar_char(element.group, element.endianness),
                               element.endianness))
    /\ res_point' = group_identity
    /\ answers' = [answers EXCEPT !.at = "loop"]
    /\ UNCHANGED element
    /\ UNCHANGED <<verifyVars, codecVars, assemblyVars, scopeVars>>

\* One round of the loop over the bits.
TorsionFreeBit ==
    /\ answers.at = "loop"
    /\ bits # <<>>
    /\ res_point' = double_and_add(res_point, Head(bits), element.point,
                                   element.group)
    /\ bits' = Tail(bits)
    /\ UNCHANGED <<element, answers>>
    /\ UNCHANGED <<verifyVars, codecVars, assemblyVars, scopeVars>>

\* res.is_identity()
TorsionFreeEnd ==
    /\ answers.at = "loop"
    /\ bits = <<>>
    /\ answers' = [answers EXCEPT !.at = "done",
                                  !.torsion_free = << res_point = group_identity >>]
    /\ UNCHANGED <<element, bits, res_point>>
    /\ UNCHANGED <<verifyVars, codecVars, assemblyVars, scopeVars>>

CofactorNext ==
    \/ IsSmallOrder
    \/ TorsionFreeStart
    \/ TorsionFreeBit
    \/ TorsionFreeEnd

CofactorSpec == CofactorInit /\ [][CofactorNext]_vars

\* ------------------------------------------------------------------------
\* Vocabulary of the properties
\* ------------------------------------------------------------------------

\* The call whose events are recorded has returned or aborted.
Finished == pc \in {"call", "aborted"} /\ results # <<>>

LastResult == results[Len(results)]

LastEvent == events[Len(events)]

Did(e) == \E i \in 1 .. Len(events) : events[i] = e

\* self is the generator's output, untouched.
Honest == origin.edits = <<>>

\* verify is given the circuit the CRS was generated for.
SameCircuit == circuit = origin.setup

\* self is the generator's output with exactly the one edit of kind k.
OnlyEdit(k) == Len(origin.edits) = 1 /\ origin.edits[1].kind = k

IsPrefix(s, t) == Len(s) <= Len(t) /\ s = SubSeq(t, 1, Len(s))

\* ------------------------------------------------------------------------
\* C1: for an ExtendedParameters value generated honestly for a circuit,
\* verify called with that circuit returns Ok(()), whatever the rng yields.
\* ------------------------------------------------------------------------
C1_HonestCrsAccepted ==
    (Honest /\ SameCircuit /\ Finished) => LastResult = "Ok"

\* ------------------------------------------------------------------------
\* C2: if any of g1, g2, alpha_g1, beta_g1, gamma_g2, delta_g1, h[0] is the
\* identity, verify returns Err(MalformedCrs), whatever the other fields,
\* the circuit and the rng are.
\* ------------------------------------------------------------------------
HasIdentity(xp) ==
    \/ Len(xp.taus_g1) > 0 /\ is_identity(At(xp.taus_g1, 0))
    \/ Len(xp.taus_g2) > 0 /\ is_identity(At(xp.taus_g2, 0))
    \/ is_identity(xp.params.vk.alpha_g1)
    \/ is_identity(xp.params.vk.beta_g1)
    \/ is_identity(xp.params.vk.gamma_g2)
    \/ is_identity(xp.params.vk.delta_g1)
    \/ Len(xp.params.h) > 0 /\ is_identity(At(xp.params.h, 0))

C2_IdentityRejected ==
    (HasIdentity(self) /\ Finished) => LastResult = "MalformedCrs"

\* ------------------------------------------------------------------------
\* C3: when the call reaches the cross-group check and beta_g1, beta_g2 (or
\* delta_g1, delta_g2) encode different scalars, the check ends the call
\* with Err(MalformedCrs), and such a CRS is never accepted; when both
\* pairs are consistent, the check does not reject.
\* ------------------------------------------------------------------------
CrossGroupMismatch(xp) ==
    LET g1 == At(xp.taus_g1, 0)
        g2 == At(xp.taus_g2, 0)
        vk == xp.params.vk
    IN  \/ pairing(g1, vk.beta_g2) # pairing(vk.beta_g1, g2)
        \/ pairing(g1, vk.delta_g2) # pairing(vk.delta_g1, g2)

C4_SwappedTausRejected ==
    (OnlyEdit("swap_taus_g1") /\ SameCircuit /\ Finished)
        => LastResult = "MalformedCrs"

\* ------------------------------------------------------------------------
\* C5: an honest CRS audited against a circuit with another number of
\* auxiliary wires, or with more constraints than the CRS has powers of
\* tau, makes verify return Err(MalformedCrs).
\* ------------------------------------------------------------------------
OtherShape(xp, ops) ==
    LET syn == QapSynthesisOf(ops)
    IN  /\ syn.ok
        /\ \/ syn.cs.num_aux # Len(xp.params.l)
           \/ syn.cs.num_constraints > Len(xp.taus_g1)

C5_OtherCircuitRejected ==
    (Honest /\ OtherShape(self, circuit) /\ Finished)
        => LastResult = "MalformedCrs"

\* ------------------------------------------------------------------------
\* C6: if the stored a, b_g1 or b_g2 differs from the sequence recomputed
\* from the circuit and the powers of tau, verify returns
\* Err(MalformedCrs).
\* ------------------------------------------------------------------------
StoredQueryEdited ==
    \E k \in {"replace_a", "remove_a", "add_a", "replace_b_g1", "replace_b_g2"} :
        OnlyEdit(k)

C6_StoredQueriesRejected ==
    (StoredQueryEdited /\ SameCircuit /\ Finished)
        => LastResult = "MalformedCrs"

\* ------------------------------------------------------------------------
\* C7: verify never panics on a value ExtendedParameters::read can return:
\* it returns Ok or Err, whatever the lengths of taus_g1, taus_g2 and h.
\* ------------------------------------------------------------------------
\* read rejects the identity in h, l, a, b_g1, b_g2, ic, taus_g1, taus_g2
\* and puts no condition on the lengths.
Readable(xp) ==
    /\ NoIdentity(xp.params.vk.ic)
    /\ NoIdentity(xp.params.h)
    /\ NoIdentity(xp.params.l)
    /\ NoIdentity(xp.params.a)
    /\ NoIdentity(xp.params.b_g1)
    /\ NoIdentity(xp.params.b_g2)
    /\ NoIdentity(xp.taus_g1)
    /\ NoIdentity(xp.taus_g2)

C7_NoPanic ==
    (Readable(self) /\ SameCircuit /\ Finished) => LastResult # "Panic"

\* ------------------------------------------------------------------------
\* C8: verify short-circuits.  A failed check ends the call at once with
\* Err(MalformedCrs) and no later step runs: after a failed non-degeneracy
\* or cross-group check the rng has not been sampled and synthesize has not
\* been invoked; after a failed H-query or powers-of-tau check synthesize
\* has not been invoked.
\* ------------------------------------------------------------------------
\* The step just taken was check e and its condition failed.
FailedCheck(e) ==
    /\ events # <<>>
    /\ LastEvent = e
    /\ CASE e = "nondegeneracy" -> HasIdentity(self)
         [] e = "crossgroup" -> CrossGroupMismatch(self)
         [] e = "hquery" ->
                /\ Len(self.params.h) = Degree(self)
                /\ HQueryProduct(self, drawn) # 0
         [] e = "taus" ->
                /\ Degree(self) > 0
                /\ TausProduct(self, Take(drawn, Degree(self)),
                               Skip(drawn, Degree(self))) # 0

RejectedAt(e) ==
    /\ Finished
    /\ LastEvent = e
    /\ LastResult = "MalformedCrs"

C9_TausBeforeHQuery ==
    Did("hquery") => Did("taus")

\* ------------------------------------------------------------------------
\* C9 (amended): verify runs its checks in the order non-degeneracy,
\* cross-group, H-query, powers-of-tau, QAP evaluation, structural
\* equality.  The H-query check, which draws r, is completed before the
\* powers-of-tau check draws p and q: a call the H-query check rejects has
\* drawn d scalars and never runs the powers-of-tau check, and a call the
\* powers-of-tau check rejects has passed the H-query check.
\* ------------------------------------------------------------------------
OrderOfVerify ==
    <<"entry", "nondegeneracy", "crossgroup", "rng_r", "hquery",
      "rng_p", "rng_q", "taus", "synthesize", "evaluation", "sizes",
      "rng_z", "validation", "equality">>

C9_HQueryBeforeTaus ==
    /\ IsPrefix(events, OrderOfVerify)
    /\ Did("taus") => Did("hquery")
    /\ FailedCheck("hquery") =>
          /\ RejectedAt("hquery")
          /\ rng_calls = Degree(self)
          /\ ~Did("rng_p")
    /\ RejectedAt("taus") =>
          /\ Did("hquery")
          /\ rng_calls = 3 * Degree(self)

\* A CRS whose h and taus_g1 are both wrong, rejected by the H-query check.
C9_BothWrongRejectedByHQuery ==
    /\ Len(origin.edits) = 2
    /\ origin.edits[1].kind = "bit_h"
    /\ origin.edits[2].kind = "swap_taus_g1"
    /\ FailedCheck("hquery")
    /\ RejectedAt("hquery")
    /\ rng_calls = Degree(self)

\* ------------------------------------------------------------------------
\* C10: verify takes &self and leaves params, taus_g1 and taus_g2 as they
\* were, and on an honest CRS every one of any number of consecutive calls
\* with the same circuit returns Ok(()).
\* ------------------------------------------------------------------------
C10_RepeatedCallsOk ==
    /\ self = ApplyEdits(generate_extended_parameters(origin.setup, origin.t),
                         origin.edits)
    /\ (Honest /\ SameCircuit) =>
          \A k \in 1 .. Len(results) : results[k] = "Ok"

\* ------------------------------------------------------------------------
\* Vocabulary of the properties of the encodings
\* ------------------------------------------------------------------------

\* write has returned and nothing was cut from what it produced.
WrittenOut(type) == stage = "written" /\ value.type = type /\ ~cut

\* read has returned from the whole of what write produced.
ReadBack(type) == stage = "read" /\ value.type = type /\ ~cut

\* A value whose elements are all points of the subgroup, none the identity.
ValidValue == InSubgroup(value) /\ NoIdentityIn(value)

\* read returned Ok(y) with y == value.
RoundTrip == decoded.ok /\ decoded.val = value.x

\* ------------------------------------------------------------------------
\* C11: for every valid Parameters value x (no identity in vk, h, l, a,
\* b_g1, b_g2), Parameters::read of the bytes x.write produced returns
\* Ok(y) with y == x, with checked = true and with checked = false.
\* ------------------------------------------------------------------------
C11_ParametersRoundTrip ==
    ReadBack("Parameters") /\ ValidValue => RoundTrip

\* A generated Parameters value read back unchecked, equal to the original.
C11_ParametersReadBackUnchecked ==
    /\ ReadBack("Parameters")
    /\ ValidValue
    /\ value.x \in { x.params : x \in GeneratedValues }
    /\ ~decoded.checked
    /\ RoundTrip

\* ------------------------------------------------------------------------
\* C12: for every valid ExtendedParameters value x, ExtendedParameters::read
\* of the bytes x.write produced returns Ok(y) with y == x (params, taus_g1
\* and taus_g2 equal, in the same order), checked or not.
\* ------------------------------------------------------------------------
C12_ExtendedParametersRoundTrip ==
    ReadBack("ExtendedParameters") /\ ValidValue =>
        /\ decoded.ok
        /\ decoded.val.params = value.x.params
        /\ decoded.val.taus_g1 = value.x.taus_g1
        /\ decoded.val.taus_g2 = value.x.taus_g2
        /\ decoded.val = value.x

\* A generated CRS with several distinct powers of tau, read back checked.
C12_ExtendedParametersReadBackChecked ==
    /\ ReadBack("ExtendedParameters")
    /\ ValidValue
    /\ Len(value.x.taus_g1) > 1
    /\ value.x.taus_g1[1] # value.x.taus_g1[2]
    /\ decoded.checked
    /\ RoundTrip

\* ------------------------------------------------------------------------
\* C13 (as stated): for every Proof whose three fields are valid group
\* elements of G1, G2, G1, the identity included, Proof::read of the bytes
\* Proof::write produced returns Ok(p') with p' == p.
\* ------------------------------------------------------------------------
C13_AnyProofRoundTrip ==
    ReadBack("Proof") /\ InSubgroup(value) => RoundTrip

\* ------------------------------------------------------------------------
\* C13 (amended): a Proof whose three fields are subgroup elements other
\* than the identity is read back equal; a Proof with a field that is the
\* identity is written, and Proof::read fails on its bytes with InvalidData.
\* ------------------------------------------------------------------------
C13_ProofRoundTrip ==
    ReadBack("Proof") /\ InSubgroup(value) =>
        IF NoIdentityIn(value)
        THEN RoundTrip
        ELSE ~decoded.ok /\ decoded.kind = "InvalidData"

\* A proof with a field whose y is the larger root, read back equal.
C13_ProofReadBack ==
    /\ ReadBack("Proof")
    /\ ValidValue
    /\ YIsLargest(value.x.a)
    /\ ~YIsLargest(value.x.c)
    /\ Len(buffer) = 2 * G1Compressed + G2Compressed
    /\ RoundTrip

\* ------------------------------------------------------------------------
\* C14: VerifyingKey::read, and with it Parameters::read and
\* ExtendedParameters::read, fails with InvalidData whenever one of
\* alpha_g1, beta_g1, beta_g2, gamma_g2, delta_g1, delta_g2 or an ic entry
\* is the well-formed encoding of the identity.
\* ------------------------------------------------------------------------
\* The verifying key of the value written.
VkOf(v) ==
    CASE v.type = "VerifyingKey" -> v.x
      [] v.type = "Parameters" -> v.x.vk
      [] v.type = "ExtendedParameters" -> v.x.params.vk

C14_IdentityInVkRejected ==
    /\ stage = "read"
    /\ value.type # "Proof"
    /\ ~cut
    /\ 0 \in VkElements(VkOf(value))
    => ~decoded.ok /\ decoded.kind = "InvalidData"

\* ------------------------------------------------------------------------
\* C15 (as stated): reading a proper prefix of a valid encoding of a Proof,
\* VerifyingKey, Parameters or ExtendedParameters fails, and the error kind
\* is InvalidData.
\* ------------------------------------------------------------------------
C15_TruncatedIsInvalidData ==
    stage = "read" /\ cut => ~decoded.ok /\ decoded.kind = "InvalidData"

\* ------------------------------------------------------------------------
\* C15 (amended): reading a proper prefix of a valid encoding fails,
\* wherever the cut is, and the error kind is UnexpectedEof, the error of
\* read_exact and read_u32 on a reader that ends early.
\* ------------------------------------------------------------------------
C15_TruncatedIsUnexpectedEof ==
    stage = "read" /\ cut => ~decoded.ok /\ decoded.kind = "UnexpectedEof"

\* Parameters cut inside the count of h, read with checked = true.
C15_CutInsideCount ==
    /\ stage = "read"
    /\ cut
    /\ value.type = "Parameters"
    /\ Len(buffer) = Len(VerifyingKey_write(value.x.vk)) + 2
    /\ decoded.checked
    /\ ~decoded.ok
    /\ decoded.kind = "UnexpectedEof"

\* ------------------------------------------------------------------------
\* C16: Parameters::write emits alpha_g1, beta_g1, beta_g2, gamma_g2,
\* delta_g1, delta_g2, then ic, h, l, a, b_g1, b_g2 each as a 4-byte
\* big-endian count followed by that many uncompressed elements: the length
\* is 3*G1u + 3*G2u + 6*4 + G1u*(|ic|+|h|+|l|+|a|+|b_g1|) + G2u*|b_g2| and
\* each count equals the length of its array.
\* ------------------------------------------------------------------------
\* The big-endian number in the four bytes after offset off.
CountAt(buf, off) ==
    ((buf[off + 1] * 256 + buf[off + 2]) * 256 + buf[off + 3]) * 256
        + buf[off + 4]

\* The point the bytes after offset off encode.
ElementAt(group, buf, off) ==
    from_uncompressed_unchecked(group,
        SubSeq(buf, off + 1, off + UncompressedSize(group)), FALSE)

\* The count of v and the elements of v, in order, after offset off.
VectorAt(group, buf, off, v) ==
    /\ off + 4 + UncompressedSize(group) * Len(v) <= Len(buf)
    /\ CountAt(buf, off) = Len(v)
    /\ \A i \in 1 .. Len(v) :
          ElementAt(group, buf, off + 4 + UncompressedSize(group) * (i - 1))
              = v[i]

VectorSize(group, v) == 4 + UncompressedSize(group) * Len(v)

ParametersLayout(buf, p) ==
    LET ic == 3 * G1Uncompressed + 3 * G2Uncompressed
        h == ic + VectorSize("G1", p.vk.ic)
        l == h + VectorSize("G1", p.h)
        a == l + VectorSize("G1", p.l)
        b_g1 == a + VectorSize("G1", p.a)
        b_g2 == b_g1 + VectorSize("G1", p.b_g1)
    IN  /\ Len(buf) = 3 * G1Uncompressed + 3 * G2Uncompressed + 6 * 4
                + G1Uncompressed * (Len(p.vk.ic) + Len(p.h) + Len(p.l)
                                      + Len(p.a) + Len(p.b_g1))
                + G2Uncompressed * Len(p.b_g2)
        /\ ElementAt("G1", buf, 0) = p.vk.alpha_g1
        /\ ElementAt("G1", buf, G1Uncompressed) = p.vk.beta_g1
        /\ ElementAt("G2", buf, 2 * G1Uncompressed) = p.vk.beta_g2
        /\ ElementAt("G2", buf, 2 * G1Uncompressed + G2Uncompressed)
              = p.vk.gamma_g2
        /\ ElementAt("G1", buf, 2 * G1Uncompressed + 2 * G2Uncompressed)
              = p.vk.delta_g1
        /\ ElementAt("G2", buf, 3 * G1Uncompressed + 2 * G2Uncompressed)
              = p.vk.delta_g2
        /\ VectorAt("G1", buf, ic, p.vk.ic)
        /\ VectorAt("G1", buf, h, p.h)
        /\ VectorAt("G1", buf, l, p.l)
        /\ VectorAt("G1", buf, a, p.a)
        /\ VectorAt("G1", buf, b_g1, p.b_g1)
        /\ VectorAt("G2", buf, b_g2, p.b_g2)

C16_ParametersLayout ==
    WrittenOut("Parameters") =>
        ParametersLayout(buffer, value.x)

\* Generated parameters whose arrays differ in length, written.
C16_ParametersWritten ==
    /\ WrittenOut("Parameters")
    /\ ValidValue
    /\ Len(value.x.a) > Len(value.x.l)
    /\ Len(value.x.l) > Len(value.x.b_g2)
    /\ value.x.vk.beta_g2 # value.x.vk.gamma_g2
    /\ ParametersLayout(buffer, value.x)

\* ------------------------------------------------------------------------
\* C17: Parameters::write of the parameters generated for the test circuit
\* MySillyCircuit (100 gates a*b=c, two auxiliary wires and one public
\* input each) yields exactly 2136 bytes, and Proof::write of any proof for
\* it yields exactly 192 bytes.
\* ------------------------------------------------------------------------
\* assert_eq!(v.len(), 2136) and assert_eq!(v.len(), 192)
ExpectedParametersLength == 2136

ExpectedProofLength == 192

C17_TestCircuitLengths ==
    /\ WrittenOut("Parameters")
         /\ value.x = generated_shape(MySillyCircuit(TestGates))
         => Len(buffer) = ExpectedParametersLength
    /\ WrittenOut("Proof") => Len(buffer) = ExpectedProofLength

\* ------------------------------------------------------------------------
\* C18 (as stated): with checked = true, Parameters::read and
\* ExtendedParameters::read fail with InvalidData if any point in the
\* stream is outside the prime-order subgroup or not on the curve; with
\* checked = false the subgroup check is skipped for every decoded point,
\* the verifying-key elements included.
\* ------------------------------------------------------------------------
\* read(.., checked) has returned from the whole of what write produced.
ReadBackWith(checked) ==
    /\ stage = "read"
    /\ value.type \in {"Parameters", "ExtendedParameters"}
    /\ ~cut
    /\ decoded.checked = checked

\* No element of the value is the identity or off the curve, so that read
\* can only fail on a point outside the subgroup.
OnlySubgroupAtStake ==
    NoIdentityIn(value) /\ OffCurve \notin ElementsOf(value)

CheckedRejects ==
    ReadBackWith(TRUE) /\ ElementsOf(value) \cap {OffSubgroup, OffCurve} # {}
        => ~decoded.ok /\ decoded.kind = "InvalidData"

C18_UncheckedSkipsEveryPoint ==
    /\ CheckedRejects
    /\ ReadBackWith(FALSE) /\ OnlySubgroupAtStake => RoundTrip

\* ------------------------------------------------------------------------
\* C18 (amended): with checked = true every point outside the subgroup or
\* off the curve makes read fail with InvalidData; with checked = false the
\* subgroup check is skipped for the points of h, l, a, b_g1, b_g2, taus_g1
\* and taus_g2 only: the six verifying-key elements and the ic entries are
\* decoded with the full check whatever checked is.
\* ------------------------------------------------------------------------
C18_UncheckedSkipsAllButVk ==
    /\ CheckedRejects
    /\ ReadBackWith(FALSE) /\ OnlySubgroupAtStake
          /\ OffSubgroup \notin VkElements(VkOf(value))
          => RoundTrip
    /\ ReadBackWith(FALSE)
          /\ VkElements(VkOf(value)) \cap {OffSubgroup, OffCurve} # {}
          => ~decoded.ok /\ decoded.kind = "InvalidData"

\* A point of h outside the subgroup, returned by the unchecked read.
C18_UncheckedAcceptsOffSubgroup ==
    /\ ReadBackWith(FALSE)
    /\ value.type = "Parameters"
    /\ value.x.h[1] = OffSubgroup
    /\ decoded.ok
    /\ decoded.val.h[1] = OffSubgroup

\* ------------------------------------------------------------------------
\* C19: every ExtendedParameters value a successful ExtendedParameters::read
\* returns has taus_g1.len() == taus_g2.len(); a stream whose two taus
\* counts differ is rejected by read.
\* ------------------------------------------------------------------------
C19_ReadTausLengthsEqual ==
    stage = "read" /\ value.type = "ExtendedParameters" /\ decoded.ok =>
        Len(decoded.val.taus_g1) = Len(decoded.val.taus_g2)

\* ------------------------------------------------------------------------
\* C20: after any sequence of alloc, alloc_input, enforce, push_namespace
\* and pop_namespace on a KeypairAssembly started empty, the k-th alloc
\* returned Aux(k-1) and the k-th alloc_input returned Input(k-1); num_aux
\* is the length of at_aux, bt_aux and ct_aux, num_inputs the length of
\* at_inputs, bt_inputs and ct_inputs; the handles of one kind are pairwise
\* distinct and dense from 0.
\* ------------------------------------------------------------------------
\* The positions in the log of the calls named name.
CallsOf(name) == { i \in 1 .. Len(returned) : returned[i].call = name }

\* The call at position i is the k-th of its name.
Rank(i) ==
    Cardinality({ j \in CallsOf(returned[i].call) : j <= i })

C20_DenseHandles ==
    /\ \A i \in CallsOf("alloc") : returned[i].var = Aux(Rank(i) - 1)
    /\ \A i \in CallsOf("alloc_input") : returned[i].var = Input(Rank(i) - 1)
    /\ cs.num_aux = Len(cs.at_aux)
    /\ cs.num_aux = Len(cs.bt_aux)
    /\ cs.num_aux = Len(cs.ct_aux)
    /\ cs.num_inputs = Len(cs.at_inputs)
    /\ cs.num_inputs = Len(cs.bt_inputs)
    /\ cs.num_inputs = Len(cs.ct_inputs)
    /\ \A i \in CallsOf("alloc"), j \in CallsOf("alloc") :
          i # j => returned[i].var # returned[j].var
    /\ \A i \in CallsOf("alloc_input"), j \in CallsOf("alloc_input") :
          i # j => returned[i].var # returned[j].var
    /\ { returned[i].var.id : i \in CallsOf("alloc") }
          = 0 .. (cs.num_aux - 1)
    /\ { returned[i].var.id : i \in CallsOf("alloc_input") }
          = 0 .. (cs.num_inputs - 1)

\* Two auxiliary wires with a namespace call or a constraint between them,
\* and then an input.
C20_AllocsAroundEnforce ==
    /\ Len(returned) = 4
    /\ returned[1].call = "alloc"
    /\ returned[2].call \in {"push_namespace", "pop_namespace", "enforce"}
    /\ returned[3] = Call("alloc", Aux(1))
    /\ returned[4] = Call("alloc_input", Input(0))
    /\ cs.num_aux = 2
    /\ cs.num_inputs = 1


\* ------------------------------------------------------------------------
\* C21: a call enforce(A, B, C) made when num_constraints is n appends, for
\* every term (coeff, wire) of A, of B and of C, in the order of the terms,
\* the pair (coeff, n) to that wire's list of the same matrix (at_, bt_, ct_;
\* _inputs for an input wire, _aux for an auxiliary one), appends nothing
\* else, and leaves num_constraints at n + 1. So every index stored in a
\* list is below num_constraints and no list has an index followed by a
\* smaller one.
\* ------------------------------------------------------------------------
\* The list of lists of matrix m (1 for A, 2 for B, 3 for C) for one kind of
\* wire.
Matrix(asm, m, kind) ==
    CASE m = 1 /\ kind = "Input" -> asm.at_inputs
      [] m = 1 /\ kind = "Aux" -> asm.at_aux
      [] m = 2 /\ kind = "Input" -> asm.bt_inputs
      [] m = 2 /\ kind = "Aux" -> asm.bt_aux
      [] m = 3 /\ kind = "Input" -> asm.ct_inputs
      [] m = 3 /\ kind = "Aux" -> asm.ct_aux

WireKinds == {"Input", "Aux"}

\* The pairs the terms of l that name var stand for in constraint n.
RECURSIVE TermsFor(_, _, _)
TermsFor(l, var, n) ==
    IF l = <<>> THEN <<>>
    ELSE (IF Head(l)[2] = var THEN << <<Head(l)[1], n>> >> ELSE <<>>)
            \o TermsFor(Tail(l), var, n)

\* The step is a call of name.
IsCall(name) ==
    /\ Len(returned') = Len(returned) + 1
    /\ returned'[Len(returned')].call = name

EnforceAppendsItsTerms ==
    IsCall("enforce") =>
        LET abc == passed'[Len(passed')]
            n == cs.num_constraints
        IN  /\ cs'.num_constraints = n + 1
            /\ \A m \in 1 .. 3, kind \in WireKinds :
                  /\ Len(Matrix(cs', m, kind)) = Len(Matrix(cs, m, kind))
                  /\ \A i \in 1 .. Len(Matrix(cs, m, kind)) :
                        Matrix(cs', m, kind)[i]
                            = Matrix(cs, m, kind)[i]
                                \o TermsFor(abc[m], [kind |-> kind, id |-> i - 1], n)

IndicesBelowCounterAndOrdered ==
    \A m \in 1 .. 3, kind \in WireKinds :
        \A i \in 1 .. Len(Matrix(cs, m, kind)) :
            LET list == Matrix(cs, m, kind)[i]
            IN  \A k \in 1 .. Len(list) :
                    /\ list[k][2] < cs.num_constraints
                    /\ list[k][2] >= 0
                    /\ k > 1 => list[k - 1][2] <= list[k][2]

C21_EnforceAppendsTaggedTerms ==
    /\ []IndicesBelowCounterAndOrdered
    /\ [][EnforceAppendsItsTerms]_vars

\* An auxiliary wire named twice by the first constraint's A and once by the
\* second's.
C21_WireInTwoConstraints ==
    /\ cs.num_constraints = 2
    /\ cs.num_aux = 1
    /\ cs.at_aux[1] = << <<1, 0>>, <<2, 0>>, <<1, 1>> >>


\* ------------------------------------------------------------------------
\* C22: push_namespace and pop_namespace, in any order and nesting and also
\* a pop that no push preceded, leave every field of the assembly as it was;
\* alloc and alloc_input leave num_constraints and every list that existed
\* before the call as they were; enforce leaves num_inputs and num_aux as
\* they were.
\* ------------------------------------------------------------------------
ExistingListsKept ==
    \A m \in 1 .. 3, kind \in WireKinds :
        /\ Len(Matrix(cs', m, kind)) >= Len(Matrix(cs, m, kind))
        /\ \A i \in 1 .. Len(Matrix(cs, m, kind)) :
              Matrix(cs', m, kind)[i] = Matrix(cs, m, kind)[i]

CallFrames ==
    /\ IsCall("push_namespace") \/ IsCall("pop_namespace") => cs' = cs
    /\ IsCall("alloc") \/ IsCall("alloc_input") =>
          /\ cs'.num_constraints = cs.num_constraints
          /\ ExistingListsKept
    /\ IsCall("enforce") =>
          /\ cs'.num_inputs = cs.num_inputs
          /\ cs'.num_aux = cs.num_aux

C22_CallsKeepTheirFrame == [][CallFrames]_vars

\* A constrained wire, a pop that no push preceded, and an allocation after
\* them.
C22_AllocAfterConstraintAndPop ==
    /\ Len(returned) = 4
    /\ returned[1].call = "alloc"
    /\ returned[2].call = "enforce"
    /\ returned[3].call = "pop_namespace"
    /\ returned[4].call = "alloc"
    /\ cs.at_aux = << << <<1, 0>> >>, <<>> >>
    /\ cs.num_constraints = 1


\* ------------------------------------------------------------------------
\* C23: alloc and alloc_input never call the closure that would produce the
\* wire's value and always return Ok: a circuit whose assignments are all
\* missing gets a variable from every allocation, never AssignmentMissing,
\* and the assembly it leaves is the one the same calls leave when the
\* assignments are present.
\* ------------------------------------------------------------------------
\* The assembly the first k calls of the log leave when every closure has a
\* value to give.
RECURSIVE WithAssignmentsPresent(_)
WithAssignmentsPresent(k) ==
    IF k = 0 THEN KeypairAssembly
    ELSE LET before == WithAssignmentsPresent(k - 1)
             name == returned[k].call
         IN  CASE name = "alloc" -> alloc(before)
               [] name = "alloc_input" -> alloc_input(before)
               [] name = "enforce" ->
                    enforce(before, passed[k][1], passed[k][2], passed[k][3])
               [] OTHER -> before

Allocations == CallsOf("alloc") \cup CallsOf("alloc_input")

C23_AllocationsIgnoreValues ==
    /\ \A i \in Allocations : returned[i].var # NoVariable
    /\ \A i \in CallsOf("alloc") : returned[i].var.kind = "Aux"
    /\ \A i \in CallsOf("alloc_input") : returned[i].var.kind = "Input"
    /\ cs = WithAssignmentsPresent(Len(returned))

\* An auxiliary wire and an input, both without a value, and a constraint
\* over them.
C23_ConstraintOverUnassignedWires ==
    /\ Len(returned) = 3
    /\ returned[1].call = "alloc"
    /\ returned[2].call = "alloc_input"
    /\ passed[1] = <<"AssignmentMissing">>
    /\ passed[2] = <<"AssignmentMissing">>
    /\ returned[3].call = "enforce"
    /\ cs.at_aux[1] # <<>>
    /\ cs.ct_inputs[1] # <<>>


\* ------------------------------------------------------------------------
\* C24: verify allocates the constant-one input before it synthesizes the
\* circuit, so that input is Input(0); after a synthesis that returned Ok it
\* appends exactly one constraint input_i * 0 = 0 for each input wire i of
\* 0 .. num_inputs - 1, in index order.  Afterwards no input wire has an
\* empty A list, num_constraints is the circuit's number of constraints plus
\* num_inputs, and the appended constraints have added nothing to a B list,
\* a C list or a list of an auxiliary wire.
\* ------------------------------------------------------------------------
\* The number of calls of name the circuit makes.
CountOps(name) ==
    Cardinality({ i \in 1 .. Len(circuit) : circuit[i].op = name })

\* The assembly as circuit.synthesize left it.
Synthesized == synthesize(circuit, alloc_input(KeypairAssembly))

\* verify got past circuit.synthesize.
SynthesisDone == Did("synthesize") /\ Synthesized.ok

C24_InputConstraintsAppended ==
    SynthesisDone =>
        LET before == Synthesized.cs
            n == before.num_constraints
        IN  /\ assembly.num_inputs = 1 + CountOps("alloc_input")
            /\ assembly.num_aux = CountOps("alloc")
            /\ before.at_inputs[1] = <<>>
            /\ assembly.num_constraints = CountOps("enforce") + assembly.num_inputs
            /\ Len(assembly.at_inputs) = assembly.num_inputs
            /\ \A i \in 1 .. assembly.num_inputs :
                  /\ assembly.at_inputs[i]
                        = before.at_inputs[i] \o << <<1, n + i - 1>> >>
                  /\ assembly.at_inputs[i] # <<>>
            /\ assembly.bt_inputs = before.bt_inputs
            /\ assembly.ct_inputs = before.ct_inputs
            /\ assembly.at_aux = before.at_aux
            /\ assembly.bt_aux = before.bt_aux
            /\ assembly.ct_aux = before.ct_aux

\* Two gates: three inputs, the constant one first, and their three
\* constraints after the two of the circuit.
C24_TwoGatesThreeInputs ==
    /\ Did("synthesize")
    /\ circuit = MySillyCircuit(2)
    /\ assembly.num_constraints = 5
    /\ assembly.at_inputs = << << <<1, 2>> >>, << <<1, 3>> >>, << <<1, 4>> >> >>
    /\ assembly.ct_inputs = << <<>>, << <<1, 0>> >>, << <<1, 1>> >> >>


\* ------------------------------------------------------------------------
\* C29: when the entry, non-degeneracy, cross-group, H-query and
\* powers-of-tau checks pass and circuit.synthesize returns Err(e), verify
\* returns that Err(e), not MalformedCrs, and does nothing more: no input
\* constraint is appended, the QAP is not evaluated, no z is drawn and the
\* stored arrays are not compared.
\* ------------------------------------------------------------------------
SynthesisFailed == Did("synthesize") /\ ~Synthesized.ok

C29_SynthesisErrorPropagates ==
    SynthesisFailed =>
        /\ Finished
        /\ LastEvent = "synthesize"
        /\ LastResult = "SynthesisError"
        /\ pc # "aborted"
        /\ assembly = Synthesized.cs
        /\ assembly.num_constraints = CountOps("enforce")
        /\ \A i \in 1 .. assembly.num_inputs : assembly.at_inputs[i] = <<>>
        /\ evaluation = NoEvaluation
        /\ rng_calls = 3 * Degree(self)
        /\ ~Did("evaluation")
        /\ ~Did("sizes")
        /\ ~Did("rng_z")
        /\ ~Did("validation")
        /\ ~Did("equality")

\* The failing circuit on a CRS that passed the four checks.
C29_FailingCircuitAfterChecks ==
    /\ Finished
    /\ circuit = FailingCircuit
    /\ Did("hquery")
    /\ Did("taus")
    /\ LastResult = "SynthesisError"
    /\ assembly.num_aux = 1
    /\ rng_calls > 0


\* ------------------------------------------------------------------------
\* C26: the zero-filtered base vectors stay aligned with the density masks.
\* For each of A, B and C the number of non-identity evaluations the filter
\* keeps equals the number of wires whose list is non-empty, so the k-th
\* kept base is the evaluation of the k-th wire with a non-empty list; this
\* for every circuit, one where a wire's list is non-empty but its terms
\* cancel or carry a zero coefficient included.
\* ------------------------------------------------------------------------
\* The QAP evaluation ran to its end.
Evaluated == Did("evaluation") /\ evaluation # NoEvaluation

\* The wires the density mask of a matrix marks, in wire order.
DenseWires(wires) ==
    { i \in 1 .. Len(wires) : get_density(wires)[i] }

\* The evaluations of the marked wires, in wire order.
RECURSIVE EvaluationsOfDense(_, _, _)
EvaluationsOfDense(ev, wires, i) ==
    IF i > Len(wires) THEN <<>>
    ELSE (IF i \in DenseWires(wires) THEN <<ev[i]>> ELSE <<>>)
            \o EvaluationsOfDense(ev, wires, i + 1)

Aligned(ev, wires) ==
    /\ Len(FilterNonIdentity(ev)) = Cardinality(DenseWires(wires))
    /\ FilterNonIdentity(ev) = EvaluationsOfDense(ev, wires, 1)

C26_FilterAlignedWithDensity ==
    Evaluated =>
        /\ Aligned(evaluation.a_g1, WiresA(assembly))
        /\ Aligned(evaluation.b_g2, WiresB(assembly))
        /\ Aligned(evaluation.c_g1, WiresC(assembly))


\* ------------------------------------------------------------------------
\* C27: the circuit validation draws one scalar z_i per wire, the wires
\* ordered inputs first and auxiliaries after them.  ic[i] is weighted by
\* the z_i that weights the a, b and c evaluations of input wire i, and l[j]
\* by the z_(num_inputs + j) that weights those of auxiliary wire j; z_inp
\* and z_aux have num_inputs and num_aux scalars.  The check accepts exactly
\* when e(acc_a, beta_g2) * e(alpha_g1, acc_b) * e(acc_c, g2)
\* * e(acc_l, -delta_g2) * e(acc_ic, -gamma_g2) is one.
\* ------------------------------------------------------------------------
\* sum over i of z[offset + i] * bases[i]
RECURSIVE Weighted(_, _, _, _)
Weighted(bases, z, offset, i) ==
    IF i > Len(bases) THEN 0
    ELSE Mod(At(z, offset + i - 1) * bases[i] + Weighted(bases, z, offset, i + 1))

\* The pairing product with every wire's evaluations and its ic or l entry
\* weighted by the wire's own scalar.
WireWeightedProduct(z) ==
    LET vk == self.params.vk
    IN  miller_loop(<< <<Weighted(evaluation.a_g1, z, 0, 1), vk.beta_g2>>,
                       <<vk.alpha_g1, Weighted(evaluation.b_g2, z, 0, 1)>>,
                       <<Weighted(evaluation.c_g1, z, 0, 1), At(self.taus_g2, 0)>>,
                       <<Weighted(self.params.l, z, assembly.num_inputs, 1),
                         Neg(vk.delta_g2)>>,
                       <<Weighted(vk.ic, z, 0, 1), Neg(vk.gamma_g2)>> >>)

\* The step just taken was the circuit validation.
Validated == events # <<>> /\ LastEvent = "validation"

C27_WireWeightedPairingCheck ==
    Validated =>
        /\ Len(drawn) = assembly.num_inputs + assembly.num_aux
        /\ Len(Take(drawn, assembly.num_inputs)) = assembly.num_inputs
        /\ Len(Skip(drawn, assembly.num_inputs)) = assembly.num_aux
        /\ pc = "equality" <=> WireWeightedProduct(drawn) = 0


\* ------------------------------------------------------------------------
\* C28 (as stated): every random scalar of a verify call is drawn up front,
\* before any parallel work (a multi-exponentiation or the chunked QAP
\* evaluation) begins, and a successful call draws d + 2d + num_wires
\* scalars.
\* ------------------------------------------------------------------------
\* The blocks that hand work to the worker pool, and the draws.
ParallelWork == {"hquery", "taus", "evaluation", "validation"}

RngDraws == {"rng_r", "rng_p", "rng_q", "rng_z"}

\* The number of wires of the call's assembly.
NumWires == assembly.num_inputs + assembly.num_aux

Succeeded == Finished /\ LastResult = "Ok" /\ LastEvent = "equality"

C28_AllScalarsUpFront ==
    /\ \A i \in 1 .. Len(events), j \in 1 .. Len(events) :
          (events[i] \in ParallelWork /\ events[j] \in RngDraws) => j < i
    /\ Succeeded => rng_calls = 3 * Degree(self) + NumWires

\* ------------------------------------------------------------------------
\* C28 (amended): the random scalars of a verify call are drawn on the
\* calling thread one block at a time, each block in full before the
\* parallel work that consumes it and after the parallel work of the blocks
\* before it: r (d scalars) before the H-query multi-exponentiations, p and
\* q (d each) after those and before the powers-of-tau ones, z (num_wires)
\* after the QAP evaluation and before the circuit-validation ones.  A
\* successful call draws d + 2d + num_wires scalars, d = taus_g1.len() - 1.
\* ------------------------------------------------------------------------
\* The position of event e in the call, 0 when it has not happened.
PositionOf(e) ==
    IF Did(e) THEN CHOOSE i \in 1 .. Len(events) : events[i] = e ELSE 0

\* The scalars the draws done so far have taken.
ScalarsOf(e) ==
    IF ~Did(e) THEN 0
    ELSE IF e = "rng_z" THEN NumWires
    ELSE Degree(self)

C28_ScalarsDrawnBlockByBlock ==
    /\ IsPrefix(events, OrderOfVerify)
    /\ Did("rng_r") => PositionOf("hquery") = PositionOf("rng_r") + 1
    /\ Did("rng_p") =>
          /\ PositionOf("hquery") < PositionOf("rng_p")
          /\ PositionOf("rng_q") = PositionOf("rng_p") + 1
          /\ PositionOf("taus") = PositionOf("rng_q") + 1
    /\ Did("rng_z") =>
          /\ 0 < PositionOf("evaluation")
          /\ PositionOf("evaluation") < PositionOf("rng_z")
          /\ PositionOf("validation") = PositionOf("rng_z") + 1
    /\ rng_calls = ScalarsOf("rng_r") + ScalarsOf("rng_p") + ScalarsOf("rng_q")
                      + ScalarsOf("rng_z")
    /\ Succeeded => rng_calls = 3 * Degree(self) + NumWires

\* A call that returned Ok(()) on a CRS with d = 3 and a circuit of four
\* wires: 3 + 6 + 4 scalars.
C28_SuccessfulCallDrewEveryBlock ==
    /\ Succeeded
    /\ events = OrderOfVerify
    /\ Degree(self) = 3
    /\ NumWires = 4
    /\ rng_calls = 13


\* ------------------------------------------------------------------------
\* C25: in the parallel QAP evaluation the wires 0 .. num_wires - 1 are
\* split into contiguous chunks that do not overlap and together hold every
\* wire; every slot of a_g1, b_g1, b_g2 and c_g1 is written by one task and
\* by no other; verify reads the outputs only after every task has ended;
\* and the four vectors it reads are the sequential per-wire evaluation,
\* whatever the chunk size and however the tasks interleave.
\* ------------------------------------------------------------------------
\* The wires (from 1) of task t.
WiresOfTask(t) == (tasks[t].first + 1) .. (tasks[t].first + tasks[t].len)

AllSpawned == Len(tasks) = NumChunks(num_wires)

\* The tasks' chunks follow one another from wire 0 without a gap.
ChunksContiguous ==
    /\ \A t \in 1 .. Len(tasks) :
          /\ tasks[t].len >= 1
          /\ tasks[t].first = (IF t = 1 THEN 0
                               ELSE tasks[t - 1].first + tasks[t - 1].len)
    /\ \A t \in 1 .. Len(tasks), u \in 1 .. Len(tasks) :
          t # u => WiresOfTask(t) \cap WiresOfTask(u) = {}
    /\ AllSpawned =>
          UNION { WiresOfTask(t) : t \in 1 .. Len(tasks) } = 1 .. num_wires

\* Every write of a slot is by the task whose chunk holds the slot, and no
\* output is written twice at one slot.
OneWriterPerSlot ==
    \A w \in 1 .. num_wires :
        /\ \A k \in 1 .. Len(writers[w]) :
              /\ w \in WiresOfTask(writers[w][k][1])
              /\ \A l \in 1 .. Len(writers[w]) :
                    /\ writers[w][l][1] = writers[w][k][1]
                    /\ l # k => writers[w][l][2] # writers[w][k][2]
        /\ scope = "joined" => Len(writers[w]) = Len(OutputNames)

SequentialEvaluation ==
    [a_g1 |-> EvalAll(job.at, job.coeffs_g1),
     b_g1 |-> EvalAll(job.bt, job.coeffs_g1),
     b_g2 |-> EvalAll(job.bt, job.coeffs_g2),
     c_g1 |-> EvalAll(job.ct, job.coeffs_g1)]

C25_ChunkedEvaluationIsSequential ==
    /\ ChunksContiguous
    /\ OneWriterPerSlot
    /\ seen # NoEvaluation =>
          /\ scope = "joined"
          /\ AllSpawned
          /\ \A t \in 1 .. Len(tasks) : tasks[t].status = "finished"
    /\ scope = "joined" => seen = SequentialEvaluation

\* Seven wires in chunks of three: three tasks, the last with one wire, all
\* joined.
C25_ThreeChunksJoined ==
    /\ scope = "joined"
    /\ chunk = 3
    /\ num_wires = 7
    /\ Len(tasks) = 3
    /\ tasks[3].len = 1
    /\ seen = outputs
    /\ \E w \in 1 .. num_wires : seen.c_g1[w] # 0


\* ------------------------------------------------------------------------
\* C30: is_torsion_free(P) is true exactly when [r]P is the identity, r the
\* characteristic of the scalar field: its loop over the bits of r, most
\* significant first, doubling and adding, computes [r]P for every element
\* P.  So it is true for every element of the prime-order subgroup, the
\* identity included, and false for every element whose torsion component
\* is not zero.  is_small_order(P) is true exactly when [h]P is the
\* identity, h the cofactor.
\* ------------------------------------------------------------------------
\* [k] p
Scale(k, p, g) == <<(k * p[1]) % g.h, (k * p[2]) % g.r>>

\* The number the bits gone through so far spell: r without its low bits.
BitsGoneThrough == element.group.r \div (2 ^ Len(bits))

C30_TorsionFreeIffCharKills ==
    LET g == element.group
        p == element.point
    IN  /\ answers.at = "loop" => res_point = Scale(BitsGoneThrough, p, g)
        /\ answers.torsion_free # <<>> =>
              /\ res_point = Scale(g.r, p, g)
              /\ answers.torsion_free[1] = (Scale(g.r, p, g) = group_identity)
              /\ answers.torsion_free[1] = (p[1] = 0)
        /\ answers.small_order # <<>> =>
              /\ answers.small_order[1] = (Scale(g.h, p, g) = group_identity)
              /\ answers.small_order[1] = (p[2] = 0)

\* An element of order 2r of a group whose scalars are written big-endian:
\* neither torsion free nor of small order.
C30_MixedElementBigEndian ==
    /\ element.group = [r |-> 263, h |-> 4]
    /\ element.endianness = "Big"
    /\ element.point = <<2, 5>>
    /\ answers.torsion_free = <<FALSE>>
    /\ answers.small_order = <<FALSE>>

====
